---- MODULE Spec2Model ----
(***************************************************************************)
(* Model of the real-time Groww extraction session:                        *)
(*   backend/services/scraping/realGroww.js   (RealGrowwScraper)           *)
(*   backend/services/scrapingService.js      (ScrapingService singleton)  *)
(*   backend/controllers/accountController.js (syncWithGroww)              *)
(*                                                                         *)
(* JavaScript runs each callback to completion: a session keeps the event  *)
(* loop (cpu) from the moment a promise it awaits settles until it reaches *)
(* its next await.  Every await of a browser or file capability is a       *)
(* suspension point whose outcome (resolve / reject) the environment       *)
(* chooses.  The progress callback is caller code: each invocation either  *)
(* returns or throws.                                                      *)
(***************************************************************************)
EXTENDS Integers, Sequences, FiniteSets, TLC

\* ---- bounds of the model -------------------------------------------------
NumSessions == 2
MaxHoldings == 1
\* while sessions overlap, the user has logged in (or the check has failed)
\* by this many login checks
MaxOverlapChecks == 2
\* elements of the holdings page that the extraction goes through
MaxElements == 2
\* elements of the page that the discovery can match
MaxNodes == 3
\* selectors of allPossibleSelectors and sections of sectionsToCheck that match
\* something on the page
MaxSelectors == 2
MaxSections == 1
\* progress events followed from one request
MaxEvents == 2
\* requests that change stocks.json and may overlap, one account each
NumClients == 2
\* holdings handed to one processScrapedHoldings
MaxScraped == 2

Sessions == 1..NumSessions

\* ---- program constants ---------------------------------------------------
maxAttempts == 120
ProgressEvery == 12
NumHoldingsUrls == 4

NoCallback == 0
NoBrowser == 0
\* the browser, page or callback of a session that is over
Stale == -1
Handles == Sessions \cup {Stale}

\* error messages that reach the session result
ErrScraperUnavailable == "Real scraper not available. Install Puppeteer: npm run install-scraping"
ErrAccountNotFound == "Account not found"
ErrPuppeteer == "Puppeteer is not installed. Please install puppeteer dependencies first."
ErrLoginTimeout == "Login timeout - user did not log in within 10 minutes"
ErrNavigation == "Unable to navigate to holdings page"
ErrNotAFunction == "this.processScrapedData is not a function"
ErrSyncPrefix == "Real-time scraping failed: "
\* messages of errors raised by the browser capability or by caller code
ErrLaunch == "launch failed"
ErrPageSetup == "page setup failed"
ErrPageLoad == "login page load failed"
ErrEvaluate == "evaluate failed"
ErrNullPage == "Cannot read properties of null"
ErrCallback == "progress callback threw"
ErrStatusUpdate == "updateAccountSyncStatus failed"
ErrClose == "close failed"

\* summary fields the page can show (realGroww.js:431-449)
SummaryFields == {"totalInvested", "currentValue", "totalReturns", "totalReturnsPercentage"}
\* page contents tried for the summary: nothing, one field, every field
SummaryChoices == {{}, {"totalInvested"}, SummaryFields}

VARIABLES
    realScraper,         \* ScrapingService.realScraper is non-null
    puppeteerInstalled,  \* require('puppeteer') succeeds
    progressCallbacks,   \* ScrapingService.progressCallbacks: session ids with an entry
    lastSyncStatus,      \* account metadata.lastSyncStatus written for the session's account
    outcome,             \* how syncGrowwAccountRealTime ended: [kind, message]
    browser,             \* RealGrowwScraper.browser (0 = null, b = browser launched by session b)
    page,                \* RealGrowwScraper.page    (0 = null, p = page of browser p)
    isLoggedIn,          \* RealGrowwScraper.isLoggedIn
    progressCallback,    \* RealGrowwScraper.progressCallback (0 = null, c = callback registered for session c)
    browserState,        \* per launched browser: "none", "open", "closed"
    closeCalls,          \* closeCalls[b][s]: number of browser.close() calls on b made by session s
    cpu,                 \* session currently running synchronous code (0 = event loop idle)
    pc,                  \* position of each session
    cbArg,               \* the progressCallback argument of performAutomatedScraping
    loginAttempts,       \* local of waitForUserLogin
    urlIdx,              \* index into holdingsUrls (navigateToHoldings)
    navigationSuccess,   \* local of navigateToHoldings
    err,                 \* message of the error being propagated
    portfolioData,       \* local of performAutomatedScraping
    pageSummary,         \* summary fields the holdings page actually showed
    closing,             \* the browser whose close() the session awaits
    result,              \* value performAutomatedScraping settled with
    lastPct,             \* percentage of the session's latest updateProgress
    saw100,              \* the session has emitted 100
    cbThrew,             \* a progress callback invocation made by the session threw
    usedPages,           \* pages the session drove (goto / evaluate / setup)
    launched,            \* the session's puppeteer.launch resolved
    initCalls,           \* calls of initializeInteractiveBrowser made by the session
    overlap,             \* requests may arrive while a session is under way
    element,             \* the element the forEach of the extraction is at
    index,               \* number of elements the forEach has arrived at
    visited,             \* number of elements whose callback has returned
    holdings,            \* data.holdings inside page.evaluate
    document,            \* the page scrapeHoldings looks at: content of each element, matches of each query
    pass,                \* the selector or section the discovery is at (0 = not started)
    allFoundElements,    \* let allFoundElements: the candidate fragments, in the order found
    entry,               \* the service method a request went through ("none" before the request)
    onProgress,          \* the caller gave a progress callback
    received,            \* argument lists of the calls made to the caller's callback
    stocksFile,          \* contents of stocks.json: the array of stock records
    request,             \* per client: the mutation of stocks.json it asked for and where it is
    data                 \* per client: the array it read and changed, to be written back

svcVars == <<overlap, realScraper, puppeteerInstalled, progressCallbacks, lastSyncStatus, outcome>>
scraperVars == <<browser, page, isLoggedIn, progressCallback>>
browserVars == <<browserState, closeCalls, closing, launched, initCalls>>
localVars == <<cbArg, loginAttempts, urlIdx, navigationSuccess, portfolioData, pageSummary, result>>
progVars == <<lastPct, saw100, cbThrew>>
sessionVars == <<svcVars, scraperVars, browserVars, localVars, progVars, cpu, pc, err, usedPages>>
evaluateVars == <<element, index, visited, holdings>>
discoverVars == <<document, pass, allFoundElements>>
progressVars == <<entry, onProgress, received>>
storeVars == <<stocksFile, request, data>>
vars == <<sessionVars, evaluateVars, discoverVars, progressVars, storeVars>>

NoOutcome == [kind |-> "none", message |-> <<>>]

\* throw new Error(message)
Thrown(message) == [kind |-> "thrown", message |-> message]
NoResult == [status |-> "none", message |-> "", data |-> [kind |-> "none"]]
EmptyArray == [kind |-> "array"]
NoData == [kind |-> "none"]

\* ---- page.evaluate of scrapeHoldings: text and numbers ------------------------

\* Amounts, prices and units are held in hundredths (19 is 1900, 5168.90 is
\* 516890), percentages in hundredths of a percent; the texts of the model
\* carry at most two decimals.  NaN is a value outside the range of the model.
NaN == -2000000000

Digits == {"0", "1", "2", "3", "4", "5", "6", "7", "8", "9"}
\* \s, for texts whose only white space is the blank
WhiteSpace == {" "}
UpperCase == "ABCDEFGHIJKLMNOPQRSTUVWXYZ"
LowerCase == "abcdefghijklmnopqrstuvwxyz"

\* F applied to the value of v: v is computed once, as an assignment to a
\* const does
With(v, F(_)) == CHOOSE r \in {F(w) : w \in {v}} : TRUE

\* s.charAt(i - 1)
Ch(s, i) == IF i \in 1..Len(s) THEN SubSeq(s, i, i) ELSE ""

DigitVal(c) == CHOOSE d \in 0..9 : Ch("0123456789", d + 1) = c

LowerOf == [k \in 1..26 |-> <<Ch(UpperCase, k), Ch(LowerCase, k)>>]
LowerCh(c) ==
    IF \E k \in 1..26 : LowerOf[k][1] = c
    THEN LowerOf[CHOOSE k \in 1..26 : LowerOf[k][1] = c][2]
    ELSE c

\* s.toLowerCase().startsWith(sub, i - 1), for sub in lower case
LowerStartsAt(s, i, sub) ==
    /\ i + Len(sub) - 1 <= Len(s)
    /\ \A k \in 1..Len(sub) :
           Ch(s, i + k - 1) = Ch(sub, k) \/ LowerCh(Ch(s, i + k - 1)) = Ch(sub, k)

\* s.toLowerCase().includes(sub), for sub in lower case
LowerIncludes(s, sub) == \E i \in 1..(Len(s) + 1) : LowerStartsAt(s, i, sub)

\* s.replace(/[cs]/g, '')
RECURSIVE RemoveFrom(_, _, _)
RemoveFrom(s, i, cs) ==
    IF i > Len(s) THEN ""
    ELSE (IF Ch(s, i) \in cs THEN "" ELSE Ch(s, i)) \o RemoveFrom(s, i + 1, cs)

Remove(s0, cs) == With(s0, LAMBDA s : RemoveFrom(s, 1, cs))

\* the index after the longest run of characters of cs that starts at i
RunEnd(s, i, cs) ==
    IF i > Len(s) THEN i
    ELSE CHOOSE j \in i..(Len(s) + 1) :
             /\ \A k \in i..(j - 1) : Ch(s, k) \in cs
             /\ Ch(s, j) \notin cs

\* s.trim(): the index of the last character that is not white space, then
\* the text between the first and the last such character
TrimEnd(s) ==
    CHOOSE j \in 0..Len(s) :
        /\ j = 0 \/ Ch(s, j) \notin WhiteSpace
        /\ \A k \in (j + 1)..Len(s) : Ch(s, k) \in WhiteSpace

Trim(s0) == With(s0, LAMBDA s : SubSeq(s, RunEnd(s, 1, WhiteSpace), TrimEnd(s)))

\* the number written by the digits s[i..j-1]
RECURSIVE DigitsValue(_, _, _)
DigitsValue(s, i, j) ==
    IF i >= j THEN 0 ELSE DigitsValue(s, i, j - 1) * 10 + DigitVal(Ch(s, j - 1))

\* parseFloat(s), in hundredths: white space, sign, digits, fraction; what
\* follows the longest numeric prefix is ignored; no prefix gives NaN
ParseFloat(s0) ==
    With(Trim(s0), LAMBDA s :
    LET signed == s # "" /\ Ch(s, 1) \in {"+", "-"}
        i0     == IF signed THEN 2 ELSE 1
        i1     == RunEnd(s, i0, Digits)
        hasDot == i1 <= Len(s) /\ Ch(s, i1) = "."
        i2     == IF hasDot THEN RunEnd(s, i1 + 1, Digits) ELSE i1
        d1     == IF i2 > i1 + 1 THEN DigitVal(Ch(s, i1 + 1)) ELSE 0
        d2     == IF i2 > i1 + 2 THEN DigitVal(Ch(s, i1 + 2)) ELSE 0
        mag    == DigitsValue(s, i0, i1) * 100 + d1 * 10 + d2
    IN  IF i1 = i0 /\ i2 <= i1 + 1 THEN NaN
        ELSE IF signed /\ Ch(s, 1) = "-" THEN 0 - mag ELSE mag)

\* isNaN(x), x > 0 and !x of JavaScript
IsNaN(x) == x = NaN
Positive(x) == x # NaN /\ x > 0
Falsy(x) == x = NaN \/ x = 0

\* units * avgBuyPrice, in hundredths
Times(a, b) == (a * b) \div 100

\* (a / b) * 100 for a >= 0 and b > 0, in hundredths of a percent
PercentOfMagnitude(a, b) ==
    LET q0 == (a * 100) \div b
        r0 == (a * 100) % b
        q1 == (r0 * 10) \div b
        r1 == (r0 * 10) % b
        q2 == (r1 * 10) \div b
    IN  q0 * 100 + q1 * 10 + q2

\* (a / b) * 100 for b > 0
PercentOf(a, b) ==
    IF a = NaN THEN NaN
    ELSE IF a < 0 THEN 0 - PercentOfMagnitude(0 - a, b)
    ELSE PercentOfMagnitude(a, b)

\* the first index of 1..n that satisfies P, 0 when there is none
FirstIndex(n, P(_)) ==
    IF \E i \in 1..n : P(i)
    THEN CHOOSE i \in 1..n : P(i) /\ \A j \in 1..(i - 1) : ~P(j)
    ELSE 0

\* [\d,]+(?:\.\d{2})? matched at i: the index after the match, 0 for no match
AmountEnd(s, i) ==
    LET j == RunEnd(s, i, Digits \cup {","}) IN
    IF j = i THEN 0
    ELSE IF Ch(s, j) = "." /\ Ch(s, j + 1) \in Digits /\ Ch(s, j + 2) \in Digits THEN j + 3
    ELSE j

\* an amount parsed with its commas left in
AmountAt_WithCommas(s, i) == ParseFloat(SubSeq(s, i, AmountEnd(s, i) - 1))

\* parseFloat(match.replace(/,/g, '')) of the amount matched at i
AmountAt(s, i) == ParseFloat(Remove(SubSeq(s, i, AmountEnd(s, i) - 1), {","}))

\* text.match(/(\d+(?:\.\d+)?)\s*shares/i): index after the number when the
\* pattern matches at i, else 0
SharesEnd(s, i) ==
    LET j == RunEnd(s, i, Digits)
        k == IF Ch(s, j) = "." /\ Ch(s, j + 1) \in Digits THEN RunEnd(s, j + 1, Digits) ELSE j
    IN  IF j > i /\ LowerStartsAt(s, RunEnd(s, k, WhiteSpace), "shares") THEN k ELSE 0

SharesMatch(s) ==
    With(FirstIndex(Len(s), LAMBDA k : SharesEnd(s, k) # 0), LAMBDA i :
        IF i = 0 THEN [found |-> FALSE, value |-> 0]
        ELSE [found |-> TRUE, value |-> ParseFloat(SubSeq(s, i, SharesEnd(s, i) - 1))])

\* text.match(/Avg\.\s*₹\s*([\d,]+(?:\.\d{2})?)/i): start of the amount when
\* the pattern matches at i, else 0
AvgPriceStart(s, i) ==
    LET w1 == RunEnd(s, i + 4, WhiteSpace)
        w2 == RunEnd(s, w1 + 1, WhiteSpace)
    IN  IF LowerStartsAt(s, i, "avg.") /\ Ch(s, w1) = "₹" /\ AmountEnd(s, w2) # 0
        THEN w2 ELSE 0

AvgPriceMatch(s) ==
    With(FirstIndex(Len(s), LAMBDA k : AvgPriceStart(s, k) # 0), LAMBDA i :
        IF i = 0 THEN [found |-> FALSE, value |-> 0]
        ELSE [found |-> TRUE, value |-> AmountAt(s, AvgPriceStart(s, i))])

\* [...text.matchAll(/₹([\d,]+(?:\.\d{2})?)/g)].map(parseFloat without commas)
RECURSIVE AllPricesFrom(_, _)
AllPricesFrom(s, i) ==
    With(FirstIndex(Len(s), LAMBDA k : k >= i /\ Ch(s, k) = "₹" /\ AmountEnd(s, k + 1) # 0),
         LAMBDA m :
        IF m = 0 THEN <<>>
        ELSE With(AmountEnd(s, m + 1), LAMBDA e : <<AmountAt(s, m + 1)>> \o AllPricesFrom(s, e)))

AllPrices(s) == AllPricesFrom(s, 1)

\* text.match(/([+\-])₹\s*([\d,]+(?:\.\d{2})?)/): start of the amount when the
\* pattern matches at i, else 0
ProfitStart(s, i) ==
    LET w == RunEnd(s, i + 2, WhiteSpace) IN
    IF Ch(s, i) \in {"+", "-"} /\ Ch(s, i + 1) = "₹" /\ AmountEnd(s, w) # 0 THEN w ELSE 0

ProfitMatch(s) ==
    With(FirstIndex(Len(s), LAMBDA k : ProfitStart(s, k) # 0), LAMBDA i :
        IF i = 0 THEN [found |-> FALSE, value |-> 0]
        ELSE With(AmountAt(s, ProfitStart(s, i)), LAMBDA amount :
                 [found |-> TRUE,
                  value |-> IF amount = NaN THEN NaN
                            ELSE IF Ch(s, i) = "+" THEN amount ELSE 0 - amount]))

\* text.match(/([+\-]?[\d,]+(?:\.\d{2})?)\s*%/): index after the number when
\* the pattern matches at i, else 0
ProfitPercentEnd(s, i) ==
    LET i0 == IF Ch(s, i) \in {"+", "-"} THEN i + 1 ELSE i
        e  == AmountEnd(s, i0)
    IN  IF e # 0 /\ Ch(s, RunEnd(s, e, WhiteSpace)) = "%" THEN e ELSE 0

\* parseFloat(match[1]): the commas are not removed here
ProfitPercentMatch(s) ==
    With(FirstIndex(Len(s), LAMBDA k : ProfitPercentEnd(s, k) # 0), LAMBDA i :
        IF i = 0 THEN [found |-> FALSE, value |-> 0]
        ELSE [found |-> TRUE, value |-> ParseFloat(SubSeq(s, i, ProfitPercentEnd(s, i) - 1))])

\* ---- page.evaluate of scrapeHoldings: one element of foundElements ------------

\* An element is modelled by its td cells and its textContent; it carries no
\* class or data-testid attribute, so of nameSelectors and symbolSelectors
\* only 'td:first-child' and 'td:nth-child(2)' can match.
\* textContent of a row: the texts of its cells, concatenated
RECURSIVE TextOf(_)
TextOf(cells) == IF cells = <<>> THEN "" ELSE Head(cells) \o TextOf(Tail(cells))

Row(cells) == [cells |-> cells, text |-> TextOf(cells)]
Block(text) == [cells |-> <<>>, text |-> text]

\* tableCells[k].textContent.trim()
Cell(el, k) == Trim(el.cells[k + 1])

\* a callback without the skip test
IsHeaderOrEmpty_Never(el) == FALSE

\* the skip test at the head of the forEach callback
IsHeaderOrEmpty(el) ==
    \/ LowerIncludes(el.text, "stock name")
    \/ LowerIncludes(el.text, "symbol")
    \/ LowerIncludes(el.text, "quantity")
    \/ LowerIncludes(el.text, "holding")
    \/ LowerIncludes(el.text, "portfolio")
    \/ Len(el.text) < 10
    \/ Trim(el.text) = ""

\* const stockData = { name: '', symbol: '', currentPrice: 0, ... }; observed
\* records which of the derivable fields were read off the page, applied
\* which of the two strategies ("cells", "text") ran on the element
NewStockData ==
    [name |-> "", symbol |-> "", units |-> 0, avgBuyPrice |-> 0, currentPrice |-> 0,
     totalValue |-> 0, investedValue |-> 0, profitLoss |-> 0, profitLossPercentage |-> 0,
     observed |-> {}, applied |-> {}]

\* text.split(/\s+/) from index i on
\* the index after the part that starts at i
PartEnd(s, i) ==
    CHOOSE j \in i..(Len(s) + 1) :
        /\ \A k \in i..(j - 1) : Ch(s, k) \notin WhiteSpace
        /\ j > Len(s) \/ Ch(s, j) \in WhiteSpace

RECURSIVE TextParts(_, _)
TextParts(s, i) ==
    With(RunEnd(s, i, WhiteSpace), LAMBDA b :
        IF b > Len(s) THEN <<>>
        ELSE With(PartEnd(s, b), LAMBDA e : <<SubSeq(s, b, e - 1)>> \o TextParts(s, e)))

\* the first part of the text that looks like a name: !/^\d+/.test(part),
\* longer than 2 and shorter than 50
NameFromText(s) ==
    With(TextParts(s, 1), LAMBDA parts :
        With(FirstIndex(Len(parts), LAMBDA k : /\ Ch(parts[k], 1) \notin Digits
                                                /\ Len(parts[k]) > 2
                                                /\ Len(parts[k]) < 50),
             LAMBDA i : IF i = 0 THEN "" ELSE parts[i]))

\* stockData.name: the first cell when its length fits, else a part of the text
ExtractName(el, sd) ==
    With(IF Len(el.cells) >= 1 THEN Cell(el, 0) ELSE "", LAMBDA nameText :
        [sd EXCEPT !.name = IF Len(nameText) > 2 /\ Len(nameText) < 100 THEN nameText
                            ELSE NameFromText(el.text)])

\* stockData.symbol: the second cell when its length fits
ExtractSymbol(el, sd) ==
    With(IF Len(el.cells) >= 2 THEN Cell(el, 1) ELSE "", LAMBDA symbolText :
        [sd EXCEPT !.symbol = IF Len(symbolText) >= 2 /\ Len(symbolText) <= 20
                              THEN symbolText ELSE ""])

\* parseFloat(cellText.replace(/[₹,\s]/g, ''))
CellAmount(el, k) == ParseFloat(Remove(Cell(el, k), {"₹", ","} \cup WhiteSpace))

\* if (!stockData.investedValue && units > 0 && avgBuyPrice > 0)
DeriveInvested(sd) ==
    IF Falsy(sd.investedValue) /\ Positive(sd.units) /\ Positive(sd.avgBuyPrice)
    THEN [sd EXCEPT !.investedValue = Times(sd.units, sd.avgBuyPrice)]
    ELSE sd

\* if (!stockData.profitLoss && totalValue > 0 && investedValue > 0)
DeriveProfitLoss(sd) ==
    IF Falsy(sd.profitLoss) /\ Positive(sd.totalValue) /\ Positive(sd.investedValue)
    THEN [sd EXCEPT !.profitLoss = sd.totalValue - sd.investedValue]
    ELSE sd

\* positional mapping of a row of at least 7 cells
ExtractCells(el, sd) ==
    IF Len(el.cells) < 7 THEN sd
    ELSE
    LET qty      == ParseFloat(Remove(Cell(el, 1), {","} \cup WhiteSpace))
        avgPrice == CellAmount(el, 2)
        price    == CellAmount(el, 3)
        invested == CellAmount(el, 4)
        current  == CellAmount(el, 5)
        hasPl    == Len(el.cells) >= 8
        pl       == IF hasPl THEN ParseFloat(Remove(Cell(el, 7), {"₹", ",", "+"} \cup WhiteSpace))
                             ELSE NaN
        mapped   == [sd EXCEPT
                       !.units = IF Positive(qty) THEN qty ELSE @,
                       !.avgBuyPrice = IF Positive(avgPrice) THEN avgPrice ELSE @,
                       !.currentPrice = IF Positive(price) THEN price ELSE @,
                       !.investedValue = IF Positive(invested) THEN invested ELSE @,
                       !.totalValue = IF Positive(current) THEN current ELSE @,
                       !.profitLoss = IF ~IsNaN(pl) THEN pl ELSE @,
                       !.observed = @ \cup (IF Positive(invested) THEN {"investedValue"} ELSE {})
                                      \cup (IF ~IsNaN(pl) THEN {"profitLoss"} ELSE {}),
                       !.applied = @ \cup {"cells"}]
    IN  With(With(mapped, DeriveInvested), DeriveProfitLoss)

\* if (!stockData.profitLossPercentage && profitLoss !== 0 && investedValue > 0)
DerivePercentage(sd) ==
    IF Falsy(sd.profitLossPercentage) /\ sd.profitLoss # 0 /\ Positive(sd.investedValue)
    THEN [sd EXCEPT !.profitLossPercentage = PercentOf(sd.profitLoss, sd.investedValue)]
    ELSE sd

\* a fallback that always runs
NeedsTextExtraction_Always(sd) == TRUE

\* if (!units || !totalValue || !avgBuyPrice)
NeedsTextExtraction(sd) == Falsy(sd.units) \/ Falsy(sd.totalValue) \/ Falsy(sd.avgBuyPrice)

\* the text-based extraction for the Groww format
ExtractText(el, sd) ==
    IF ~NeedsTextExtraction(sd) THEN sd
    ELSE
    LET shares  == SharesMatch(el.text)
        avg     == AvgPriceMatch(el.text)
        prices  == AllPrices(el.text)
        profit  == ProfitMatch(el.text)
        percent == ProfitPercentMatch(el.text)
        n       == Len(prices)
        matched == [sd EXCEPT
                      !.units = IF shares.found THEN shares.value ELSE @,
                      !.avgBuyPrice = IF avg.found THEN avg.value ELSE @,
                      !.currentPrice = IF n >= 2 THEN prices[2] ELSE @,
                      !.profitLoss = IF profit.found THEN profit.value ELSE @,
                      !.profitLossPercentage = IF percent.found THEN percent.value ELSE @,
                      !.totalValue = IF n >= 4 THEN prices[n - 1] ELSE @,
                      !.investedValue = IF n >= 4 THEN prices[n] ELSE @,
                      !.observed = @ \cup (IF profit.found THEN {"profitLoss"} ELSE {})
                                     \cup (IF percent.found THEN {"profitLossPercentage"} ELSE {})
                                     \cup (IF n >= 4 THEN {"investedValue"} ELSE {}),
                      !.applied = @ \cup {"text"}]
    IN  With(With(With(matched, DeriveInvested), DeriveProfitLoss), DerivePercentage)

\* // Calculate P&L percentage: from totalValue and investedValue when both
\* are positive, whatever was there before
ExtractPercentage(el, sd) ==
    IF Positive(sd.totalValue) /\ Positive(sd.investedValue)
    THEN [sd EXCEPT !.profitLossPercentage =
                        PercentOf(sd.totalValue - sd.investedValue, sd.investedValue)]
    ELSE sd

\* the stockData of an element that was not skipped
StockData(el) ==
    With(With(With(With(With(NewStockData,
        LAMBDA sd : ExtractName(el, sd)),
        LAMBDA sd : ExtractSymbol(el, sd)),
        LAMBDA sd : ExtractCells(el, sd)),
        LAMBDA sd : ExtractText(el, sd)),
        LAMBDA sd : ExtractPercentage(el, sd))

\* a validation that looks at the numbers only
IsValidHolding_NumbersOnly(el, sd) ==
    Positive(sd.totalValue) \/ Positive(sd.currentPrice) \/ Positive(sd.units)

\* (hasValidName || stockData.symbol) && hasValidNumbers && isNotHeaderRow
IsValidHolding(el, sd) ==
    /\ Len(sd.name) > 2 \/ sd.symbol # ""
    /\ Positive(sd.totalValue) \/ Positive(sd.currentPrice) \/ Positive(sd.units)
    /\ ~LowerIncludes(el.text, "total") \/ Positive(sd.totalValue)

\* ---- page.evaluate of scrapeHoldings: the elements of a page -----------------

\* scenario A: the structured row of 8 cells
ScenarioA ==
    Row(<<"Nuvama Wealth", "19", "5168.90", "6930.00", "98209.10", "131670.00", "77.00", "33460.90">>)

\* scenario B: the free-text fragment
ScenarioB ==
    Block("Nuvama Wealth19 sharesAvg. ₹5,168.90₹6,930.0077.00 (1.12%)+₹33,460.9034.07%₹1,31,670.00₹98,209.10")

\* rows of the holdings table with each figure shown or replaced by a dash,
\* with and without the P&L cell
TableRows ==
    { Row(<<"Nuvama Wealth", qty, avg, "6930.00", inv, cur, "77.00">> \o pl) :
        qty \in {"19", "-"}, avg \in {"5168.90", "-"}, inv \in {"98209.10", "-"},
        cur \in {"131670.00", "-"}, pl \in {<<>>, <<"33460.90">>, <<"-">>} }

\* rows and blocks of header vocabulary, some of them with figures in their cells
HeaderElements ==
    { Block("Stock Name Symbol Quantity"),
      Block("Holding"),
      Row(<<"Stock Name", "Symbol", "Quantity", "Holding", "Portfolio", "Quantity", "Symbol">>),
      Row(<<"Company", "Qty", "Avg Price", "Current Price", "Invested", "Current Value", "Day Change", "P&L">>),
      Row(<<"Quantity", "19", "5168.90", "6930.00", "98209.10", "131670.00", "77.00", "33460.90">>),
      Row(<<"My Holding", "19", "5168.90", "6930.00", "98209.10", "131670.00", "77.00", "33460.90">>) }

\* elements shorter than 10 characters
ShortElements ==
    { Block(""), Block("   "), Block("19 shares"), Block("TCS ₹5 ₹6"),
      Row(<<"A", "1", "2", "3", "4", "5", "6", "7">>) }

\* other elements: currency-formatted cells, a totals row, figures without a
\* name, text with fewer amounts than the free-text format has
OtherElements ==
    { ScenarioA, ScenarioB,
      Row(<<"Nuvama Wealth", "19", "₹5,168.90", "₹6,930.00", "₹98,209.10", "₹1,31,670.00", "77.00 (1.12%)", "+₹33,460.90">>),
      Row(<<"Nuvama Wealth", "19", "₹5,168.90", "₹6,930.00", "-", "-", "77.00 (1.12%)", "-₹250.00">>),
      Row(<<"Nuvama Wealth", "19", "-", "₹6,930.00", "₹98,209.10", "₹1,31,670.00", "77.00 (1.12%)", "+₹33,460.90">>),
      Row(<<"Total", "-", "-", "-", "98209.10", "131670.00", "77.00", "33460.90">>),
      Row(<<"Total", "19", "-", "-", "98209.10", "-", "77.00", "33460.90">>),
      Row(<<"", "5", "5168.90", "6930.00", "98209.10", "131670.00", "77.00", "33460.90">>),
      Block("120000 ₹5 ₹6"),
      Block("120000 5000 600"),
      Block("Nuvama Wealth19 sharesAvg. ₹5,168.90₹6,930.00"),
      Block("Nuvama Wealth 19 shares"),
      Block("Nuvama Wealth19 sharesAvg. ₹5,168.90₹5,155.74-₹250.00 ₹97,959.10₹98,209.10"),
      Block("Nuvama Wealth ₹10.00 ₹12.00 ₹1,200.00 ₹1,000.00 20.00%") }

Elements == TableRows \cup HeaderElements \cup ShortElements \cup OtherElements

NoElement == [cells |-> <<>>, text |-> "no element"]

\* ---- page.evaluate of scrapeHoldings: discovery of the fragments -------------

\* elements of the page, numbered in document order
Nodes == 1..MaxNodes

\* what an element renders: textContent and innerHTML.  Two markups can
\* render the same text.
Contents ==
    {[textContent |-> "TCS 5", innerHTML |-> "<td>TCS</td><td>5</td>"],
     [textContent |-> "TCS 5", innerHTML |-> "<span>TCS</span> 5"],
     [textContent |-> "INFY 2", innerHTML |-> "<td>INFY</td><td>2</td>"]}

\* the queries of the discovery: first the selectors of allPossibleSelectors,
\* then the rows of the sections of sectionsToCheck
Selectors == 1..MaxSelectors
Sections == (MaxSelectors + 1)..(MaxSelectors + MaxSections)

\* a page: the content of each element and the elements each query matches
Documents == [content : [Nodes -> Contents], matches : [Selectors \cup Sections -> SUBSET Nodes]]
NoDocument == [content |-> <<>>, matches |-> <<>>]

\* Array.from(document.querySelectorAll(...)): the matches in document order
RECURSIVE InDocumentOrder(_)
InDocumentOrder(ns) ==
    IF ns = {} THEN <<>>
    ELSE LET first == CHOOSE n \in ns : \A m \in ns : n <= m
         IN  <<first>> \o InDocumentOrder(ns \ {first})

QuerySelectorAll(doc, q) == InDocumentOrder(doc.matches[q])

\* existingEl.textContent === newEl.textContent && existingEl.innerHTML === newEl.innerHTML
SameContent(doc, existingEl, newEl) ==
    /\ doc.content[existingEl].textContent = doc.content[newEl].textContent
    /\ doc.content[existingEl].innerHTML = doc.content[newEl].innerHTML

\* elementArray.filter(newEl => !allFoundElements.some(existingEl => same content))
NewElements(doc, found, elementArray) ==
    SelectSeq(elementArray,
              LAMBDA newEl : ~\E k \in 1..Len(found) : SameContent(doc, found[k], newEl))

\* page.evaluate starts on the page as it is
Evaluate ==
    /\ pass = 0
    /\ document = NoDocument
    /\ \E doc \in Documents : document' = doc
    /\ pass' = 1
    /\ allFoundElements' = <<>>

\* one turn of for (const selector of allPossibleSelectors)
SelectorPass ==
    /\ pass \in Selectors
    /\ allFoundElements' =
           allFoundElements \o NewElements(document, allFoundElements, QuerySelectorAll(document, pass))
    /\ pass' = pass + 1
    /\ UNCHANGED document

\* one turn of sectionsToCheck.forEach: the rows of the section
SectionPass ==
    /\ pass \in Sections
    /\ allFoundElements' =
           allFoundElements \o NewElements(document, allFoundElements, QuerySelectorAll(document, pass))
    /\ pass' = pass + 1
    /\ UNCHANGED document

\* ---- the progress callback chain ----------------------------------------------

\* messages of the errors a phase can fail with
PhaseErrors == {ErrLaunch, ErrPageLoad, ErrEvaluate, ErrLoginTimeout, ErrNavigation, ErrClose}

\* `Still waiting for login... (${minutes} min${minutes !== 1 ? 's' : ''})`
StillWaitingMessage(n) ==
    IF n \div ProgressEvery = 1 THEN "Still waiting for login... (1 min)"
    ELSE "Still waiting for login... (some mins)"

\* the (percentage, message) pairs of the updateProgress calls of a session
ProgressCalls ==
    {<<0, "Starting automated scraping...">>,
     <<5, "Initializing browser...">>,
     <<10, "Browser initialized successfully">>,
     <<15, "Connecting to Groww...">>,
     <<25, "Groww page loaded - Please log in to your account in the browser window">>,
     <<35, "Login successful! Proceeding with scraping...">>,
     <<40, "Navigating to Holdings page...">>,
     <<50, "Holdings page loaded successfully">>,
     <<60, "Scraping comprehensive portfolio data...">>,
     <<80, "Extracted some holdings with comprehensive data">>,
     <<95, "Closing browser...">>,
     <<100, "Scraping completed successfully">>}
    \cup {<<20 + (n * 10) \div maxAttempts, StillWaitingMessage(n)>> :
             n \in {k \in 1..(maxAttempts - 1) : k % ProgressEvery = 0}}
    \cup {<<0, prefix \o e>> :
             prefix \in {"Failed to initialize browser: ", "Login failed: ",
                         "Navigation failed: ", "Scraping failed: "},
             e \in PhaseErrors}

\* the arguments a function declared with k parameters binds from a call
Bind(k, args) == SubSeq(args, 1, IF Len(args) < k THEN Len(args) ELSE k)

\* scrapeGrowwRealtime: const progressCallback = (progress) => { ...; onProgress(progress); }
\* the argument list of its call of onProgress
ProgressCallback(args) == Bind(1, args)

\* the argument list the caller's callback is called with when updateProgress
\* is called with args: syncGrowwAccountRealTime hands the registered callback
\* to the scraper, scrapeGrowwRealtime hands its wrapper
Delivered(via, args) == IF via = "test" THEN ProgressCallback(args) ELSE args

\* accountController.syncWithGroww: the callback is registered for SSE
\* clients only, then syncGrowwAccountRealTime is called
SyncWithGroww ==
    /\ entry = "none"
    /\ entry' = "sync"
    /\ onProgress' \in BOOLEAN
    /\ UNCHANGED received

\* POST /scraping/test-groww: scrapeGrowwRealtime({ sessionId, onProgress })
TestGroww ==
    /\ entry = "none"
    /\ entry' = "test"
    /\ onProgress' = TRUE
    /\ UNCHANGED received

\* one updateProgress of the session: if (this.progressCallback) this.progressCallback(percentage, message)
Progress ==
    /\ entry # "none"
    /\ onProgress
    /\ Len(received) < MaxEvents
    /\ \E call \in ProgressCalls : received' = Append(received, Delivered(entry, call))
    /\ UNCHANGED <<entry, onProgress>>

\* ---- fileService and the stocks store -------------------------------------------

Clients == 1..NumClients

\* the account a client works on
AccountOf(c) == "account-" \o ToString(c)

\* a record of stocks.json without id (JSON.stringify drops undefined)
NoId == 0

\* stocks.json before the requests: one stock in each account
SeedStocks ==
    [c \in Clients |->
        [id |-> c, accountId |-> AccountOf(c), symbol |-> "OLD", name |-> "Old Holding",
         quantity |-> 100, purchasePrice |-> 1000, currentPrice |-> 1100]]

\* fileService.generateId() for the item a client adds: unique
GenerateId(c) == NumClients + c

NoRequest == [kind |-> "none", pc |-> "idle"]

\* scraped holdings handed to processScrapedHoldings
ScrapedHoldings ==
    {[symbol |-> "TCS", name |-> "Tata Consultancy", units |-> 500, avgBuyPrice |-> 300000, currentPrice |-> 310000],
     [symbol |-> "", name |-> "Nuvama Wealth", units |-> 1900, avgBuyPrice |-> 516890, currentPrice |-> 693000],
     [symbol |-> "INFY", name |-> "   ", units |-> 200, avgBuyPrice |-> 150000, currentPrice |-> 0],
     [symbol |-> "WIPRO", name |-> "Wipro", units |-> -100, avgBuyPrice |-> NaN, currentPrice |-> 0]}

HoldingLists ==
    UNION {[1..n -> ScrapedHoldings] : n \in 0..MaxScraped}

\* parseFloat(x) || 0 for a number x
OrZero(x) == IF Falsy(x) THEN 0 ELSE x

\* new Stock(stockData).toJSON() for the stockData of a scraped holding
StockOf(accountId, holding) ==
    [id |-> NoId,
     accountId |-> accountId,
     symbol |-> holding.symbol,
     name |-> holding.name,
     quantity |-> OrZero(holding.units),
     purchasePrice |-> OrZero(holding.avgBuyPrice),
     currentPrice |-> IF ~Falsy(holding.currentPrice) THEN holding.currentPrice
                      ELSE OrZero(holding.avgBuyPrice)]

\* Stock.validate().isValid
Validate(stock) ==
    /\ stock.accountId # ""
    /\ Len(Trim(stock.symbol)) # 0
    /\ Len(Trim(stock.name)) # 0
    /\ ~(stock.quantity < 0)
    /\ ~(stock.purchasePrice < 0)
    /\ ~(stock.currentPrice < 0)

\* existingStocks.filter(stock => stock.accountId !== accountId)
FilteredStocks(existingStocks, accountId) ==
    SelectSeq(existingStocks, LAMBDA stock : stock.accountId # accountId)

\* filteredStocks after the loop over the holdings: the valid ones pushed in order
RECURSIVE PushValid(_, _, _)
PushValid(filteredStocks, accountId, scraped) ==
    IF scraped = <<>> THEN filteredStocks
    ELSE PushValid(IF Validate(StockOf(accountId, Head(scraped)))
                   THEN Append(filteredStocks, StockOf(accountId, Head(scraped)))
                   ELSE filteredStocks,
                   accountId, Tail(scraped))

\* data.findIndex(item => item.id === id), 0 for -1
FindIndex(items, id) ==
    IF \E i \in DOMAIN items : items[i].id = id
    THEN CHOOSE i \in DOMAIN items :
            items[i].id = id /\ \A j \in DOMAIN items : items[j].id = id => i <= j
    ELSE 0

\* data.splice(index, 1)
Splice(items, i) == SubSeq(items, 1, i - 1) \o SubSeq(items, i + 1, Len(items))

\* the array a request writes back, from the array it read
Changed(req, items) ==
    CASE req.kind = "addItem" -> Append(items, req.newItem)
      [] req.kind = "updateById" ->
            [items EXCEPT ![FindIndex(items, req.id)] = [@ EXCEPT !.quantity = req.quantity]]
      [] req.kind = "deleteById" -> Splice(items, FindIndex(items, req.id))
      [] req.kind = "processScrapedHoldings" ->
            PushValid(FilteredStocks(items, req.accountId), req.accountId, req.holdings)

\* the request finds the item it names
Found(req, items) ==
    req.kind \in {"updateById", "deleteById"} => FindIndex(items, req.id) # 0

\* a request arrives and calls readJsonFile('stocks.json')
Call(c, req) ==
    /\ request[c] = NoRequest
    /\ request' = [request EXCEPT ![c] = req @@ [pc |-> "read_wait"]]
    /\ UNCHANGED <<stocksFile, data>>

\* fileService.addItem('stocks.json', newItem)
AddItem(c) ==
    Call(c, [kind |-> "addItem",
             newItem |-> [id |-> GenerateId(c), accountId |-> AccountOf(c), symbol |-> "NEW",
                          name |-> "New Holding", quantity |-> 300, purchasePrice |-> 2000,
                          currentPrice |-> 2100]])

\* fileService.updateById('stocks.json', id, updatedData) on the client's stock
UpdateById(c) == Call(c, [kind |-> "updateById", id |-> c, quantity |-> 700])

\* fileService.deleteById('stocks.json', id) on the client's stock
DeleteById(c) == Call(c, [kind |-> "deleteById", id |-> c])

\* processScrapedHoldings(accountId, holdings) up to its readJsonFile
ProcessScrapedHoldings(c) ==
    \E scraped \in HoldingLists :
        Call(c, [kind |-> "processScrapedHoldings", accountId |-> AccountOf(c), holdings |-> scraped])

\* readJsonFile settles: the request changes the array it got and calls
\* writeJsonFile with it, or throws when its item is not there
ReadJsonFile(c) ==
    /\ request[c].pc = "read_wait"
    /\ IF Found(request[c], stocksFile)
         THEN /\ data' = [data EXCEPT ![c] = Changed(request[c], stocksFile)]
              /\ request' = [request EXCEPT ![c].pc = "write_wait"]
         ELSE /\ request' = [request EXCEPT ![c].pc = "thrown"]
              /\ UNCHANGED data
    /\ UNCHANGED stocksFile

\* fs.writeFile settles: the file holds what the request handed over, or the
\* write fails and leaves the file as it was
WriteJsonFile(c) ==
    /\ request[c].pc = "write_wait"
    /\ \E ok \in BOOLEAN :
          IF ok THEN /\ stocksFile' = data[c]
                     /\ request' = [request EXCEPT ![c].pc = "done"]
          ELSE /\ request' = [request EXCEPT ![c].pc = "thrown"]
               /\ UNCHANGED stocksFile
    /\ UNCHANGED data

\* const foundElements = allFoundElements
Discovered == pass = MaxSelectors + MaxSections + 1

Start(o) ==
    /\ stocksFile = SeedStocks
    /\ request = [c \in Clients |-> NoRequest]
    /\ data = [c \in Clients |-> <<>>]
    /\ entry = "none"
    /\ onProgress = FALSE
    /\ received = <<>>
    /\ document = NoDocument
    /\ pass = 0
    /\ allFoundElements = <<>>
    /\ element = NoElement
    /\ index = 0
    /\ visited = 0
    /\ holdings = <<>>
    /\ overlap = o
    /\ realScraper \in BOOLEAN
    /\ puppeteerInstalled \in BOOLEAN
    /\ progressCallbacks = {}
    /\ lastSyncStatus = [s \in Sessions |-> "none"]
    /\ outcome = [s \in Sessions |-> NoOutcome]
    /\ browser = NoBrowser
    /\ page = NoBrowser
    /\ isLoggedIn = FALSE
    /\ progressCallback = NoCallback
    /\ browserState = [b \in Handles |-> "none"]
    /\ closeCalls = [b \in Handles |-> [s \in Sessions |-> 0]]
    /\ closing = [s \in Sessions |-> NoBrowser]
    /\ launched = [s \in Sessions |-> FALSE]
    /\ initCalls = [s \in Sessions |-> 0]
    /\ cpu = 0
    /\ pc = [s \in Sessions |-> "idle"]
    /\ cbArg = [s \in Sessions |-> NoCallback]
    /\ loginAttempts = [s \in Sessions |-> 0]
    /\ urlIdx = [s \in Sessions |-> 0]
    /\ navigationSuccess = [s \in Sessions |-> FALSE]
    /\ err = [s \in Sessions |-> ""]
    /\ portfolioData = [s \in Sessions |-> NoData]
    /\ pageSummary = [s \in Sessions |-> {}]
    /\ result = [s \in Sessions |-> NoResult]
    /\ lastPct = [s \in Sessions |-> -1]
    /\ saw100 = [s \in Sessions |-> FALSE]
    /\ cbThrew = [s \in Sessions |-> FALSE]
    /\ usedPages = [s \in Sessions |-> {}]

\* requests served one after the other
Init == Start(FALSE)

\* requests that overlap
InitConcurrent == Start(TRUE)

\* ---- helpers ---------------------------------------------------------------

\* a promise the session awaits: the session leaves the event loop
Await(s, label) == pc' = [pc EXCEPT ![s] = label] /\ cpu' = 0

\* synchronous continuation: the session keeps the event loop
Continue(s, label) == pc' = [pc EXCEPT ![s] = label] /\ cpu' = s

\* throw e into the enclosing catch block (reached synchronously)
Raise(s, handler, e) ==
    /\ pc' = [pc EXCEPT ![s] = handler]
    /\ err' = [err EXCEPT ![s] = e]
    /\ cpu' = s

\* outcomes of invoking callback cb: FALSE = returns, TRUE = throws; the
\* callbacks of overlapping sessions are taken to return
CbOutcomes(cb) == IF cb = NoCallback \/ overlap THEN {FALSE} ELSE BOOLEAN

\* updateProgress(percentage, message) made by session s while
\* this.progressCallback = cb; thr tells whether the callback threw
UpdateProgress(s, percentage, thr) ==
    /\ lastPct' = [lastPct EXCEPT ![s] = percentage]
    /\ saw100' = [saw100 EXCEPT ![s] = @ \/ (percentage = 100)]
    /\ cbThrew' = [cbThrew EXCEPT ![s] = @ \/ thr]

\* a call of a method of this.page by session s
DrivePage(s) == usedPages' = [usedPages EXCEPT ![s] = @ \cup {page}]

\* ---- controller and service ----------------------------------------------

\* accountController.syncWithGroww: SSE clients register a callback
SetProgressCallback(s) ==
    /\ cpu = 0
    /\ pc[s] = "idle"
    /\ s \notin progressCallbacks
    /\ progressCallbacks' = progressCallbacks \cup {s}
    /\ UNCHANGED <<overlap, realScraper, puppeteerInstalled, lastSyncStatus, outcome>>
    /\ UNCHANGED <<scraperVars, browserVars, localVars, progVars, cpu, pc, err, usedPages>>

\* removeProgressCallback(sessionId)
RemoveProgressCallback(s) == progressCallbacks \ {s}

\* syncGrowwAccountRealTime up to its first await
SyncGrowwAccountRealTime(s) ==
    /\ cpu = 0
    /\ pc[s] = "idle"
    /\ IF ~realScraper
         THEN /\ outcome' = [outcome EXCEPT ![s] = Thrown(<<ErrScraperUnavailable>>)]
              /\ pc' = [pc EXCEPT ![s] = "done"]
         ELSE /\ pc' = [pc EXCEPT ![s] = "svc_find_wait"]
              /\ UNCHANGED outcome
    /\ UNCHANGED <<overlap, realScraper, puppeteerInstalled, progressCallbacks, lastSyncStatus>>
    /\ UNCHANGED <<scraperVars, browserVars, localVars, progVars, cpu, err, usedPages>>

\* fileService.findById('accounts.json', accountId) settles
FindAccountResolved(s) ==
    /\ cpu = 0
    /\ pc[s] = "svc_find_wait"
    /\ \E found \in BOOLEAN :
         IF ~found
         THEN /\ outcome' = [outcome EXCEPT ![s] = Thrown(<<ErrAccountNotFound>>)]
              /\ pc' = [pc EXCEPT ![s] = "done"]
              /\ UNCHANGED <<cbArg, cpu>>
         ELSE /\ cbArg' = [cbArg EXCEPT ![s] = IF s \in progressCallbacks THEN s ELSE NoCallback]
              /\ Continue(s, "pas_start")
              /\ UNCHANGED outcome
    /\ UNCHANGED <<overlap, realScraper, puppeteerInstalled, progressCallbacks, lastSyncStatus>>
    /\ UNCHANGED <<scraperVars, browserVars, progVars, err, usedPages>>
    /\ UNCHANGED <<loginAttempts, urlIdx, navigationSuccess, portfolioData, pageSummary, result>>

\* ---- RealGrowwScraper: start and browser initialisation -------------------

\* performAutomatedScraping: setProgressCallback and the first progress event
PerformAutomatedScraping(s) ==
    /\ cpu = s
    /\ pc[s] = "pas_start"
    /\ LET cb == IF cbArg[s] # NoCallback THEN cbArg[s] ELSE progressCallback IN
         /\ progressCallback' = cb
         /\ \E thr \in CbOutcomes(cb) :
              /\ UpdateProgress(s, 0, thr)
              /\ IF thr THEN Raise(s, "catch_close", ErrCallback)
                        ELSE Continue(s, "init_5") /\ UNCHANGED err
    /\ UNCHANGED <<svcVars, browser, page, isLoggedIn, browserVars, localVars, usedPages>>

\* a require that always finds the module
RequirePuppeteer_Always == TRUE

\* require('puppeteer') succeeds
RequirePuppeteer == puppeteerInstalled

\* initializeInteractiveBrowser up to puppeteer.launch
InitializeInteractiveBrowser(s) ==
    /\ cpu = s
    /\ pc[s] = "init_5"
    /\ \E thr \in CbOutcomes(progressCallback) :
         /\ UpdateProgress(s, 5, thr)
         /\ IF thr THEN Raise(s, "init_catch", ErrCallback)
            ELSE IF ~RequirePuppeteer THEN Raise(s, "init_catch", ErrPuppeteer)
            ELSE Await(s, "init_launch_wait") /\ UNCHANGED err
    /\ initCalls' = [initCalls EXCEPT ![s] = @ + 1]
    /\ UNCHANGED <<svcVars, scraperVars, browserState, closeCalls, closing, launched>>
    /\ UNCHANGED <<localVars, usedPages>>

\* puppeteer.launch settles; on success this.browser is set and newPage called
LaunchResolved(s) ==
    /\ cpu = 0
    /\ pc[s] = "init_launch_wait"
    /\ \E ok \in BOOLEAN :
         IF ok
         THEN /\ browser' = s
              /\ browserState' = [browserState EXCEPT ![s] = "open"]
              /\ launched' = [launched EXCEPT ![s] = TRUE]
              /\ Await(s, "init_newpage_wait")
              /\ UNCHANGED err
         ELSE /\ Raise(s, "init_catch", ErrLaunch)
              /\ UNCHANGED <<browser, browserState, launched>>
    /\ UNCHANGED <<svcVars, page, isLoggedIn, progressCallback, closeCalls, closing, initCalls>>
    /\ UNCHANGED <<localVars, progVars, usedPages>>

\* browser.newPage settles; on success this.page is set and setViewport called
NewPageResolved(s) ==
    /\ cpu = 0
    /\ pc[s] = "init_newpage_wait"
    /\ \E ok \in BOOLEAN :
         IF ok
         THEN /\ page' = s
              /\ usedPages' = [usedPages EXCEPT ![s] = @ \cup {s}]
              /\ Await(s, "init_viewport_wait")
              /\ UNCHANGED err
         ELSE /\ Raise(s, "init_catch", ErrPageSetup)
              /\ UNCHANGED <<page, usedPages>>
    /\ UNCHANGED <<svcVars, browser, isLoggedIn, progressCallback, browserVars>>
    /\ UNCHANGED <<localVars, progVars>>

\* page.setViewport settles; on success this.page.setUserAgent is called
ViewportResolved(s) ==
    /\ cpu = 0
    /\ pc[s] = "init_viewport_wait"
    /\ \E ok \in BOOLEAN :
         IF ~ok THEN Raise(s, "init_catch", ErrPageSetup) /\ UNCHANGED usedPages
         ELSE IF page = NoBrowser THEN Raise(s, "init_catch", ErrNullPage) /\ UNCHANGED usedPages
         ELSE DrivePage(s) /\ Await(s, "init_useragent_wait") /\ UNCHANGED err
    /\ UNCHANGED <<svcVars, scraperVars, browserVars, localVars, progVars>>

\* page.setUserAgent settles; listeners are attached, progress 10 is reported
UserAgentResolved(s) ==
    /\ cpu = 0
    /\ pc[s] = "init_useragent_wait"
    /\ \E ok \in BOOLEAN :
         IF ~ok THEN Raise(s, "init_catch", ErrPageSetup) /\ UNCHANGED progVars
         ELSE IF page = NoBrowser THEN Raise(s, "init_catch", ErrNullPage) /\ UNCHANGED progVars
         ELSE \E thr \in CbOutcomes(progressCallback) :
                /\ UpdateProgress(s, 10, thr)
                /\ IF thr THEN Raise(s, "init_catch", ErrCallback)
                          ELSE Continue(s, "login_15") /\ UNCHANGED err
    /\ UNCHANGED <<svcVars, scraperVars, browserVars, localVars, usedPages>>

\* the catch blocks of initializeInteractiveBrowser, waitForUserLogin,
\* navigateToHoldings and scrapeHoldings: report 0 and rethrow
InnerCatchPcs == {"init_catch", "login_catch", "nav_catch", "scr_catch"}

InnerCatch(s) ==
    /\ cpu = s
    /\ pc[s] \in InnerCatchPcs
    /\ \E thr \in CbOutcomes(progressCallback) :
         /\ UpdateProgress(s, 0, thr)
         /\ Raise(s, "catch_close", IF thr THEN ErrCallback ELSE err[s])
    /\ UNCHANGED <<svcVars, scraperVars, browserVars, localVars, usedPages>>

\* ---- waitForUserLogin -------------------------------------------------------

\* progress 15, then page.goto('https://groww.in/login')
LoginConnect(s) ==
    /\ cpu = s
    /\ pc[s] = "login_15"
    /\ \E thr \in CbOutcomes(progressCallback) :
         /\ UpdateProgress(s, 15, thr)
         /\ IF thr THEN Raise(s, "login_catch", ErrCallback) /\ UNCHANGED usedPages
            ELSE IF page = NoBrowser THEN Raise(s, "login_catch", ErrNullPage) /\ UNCHANGED usedPages
            ELSE DrivePage(s) /\ Await(s, "login_goto_wait") /\ UNCHANGED err
    /\ UNCHANGED <<svcVars, scraperVars, browserVars, localVars>>

\* catch (navigationError): retry through the home page (goto, click, goto)
LoginFallback(s) ==
    IF page = NoBrowser THEN Raise(s, "login_catch", ErrNullPage) /\ UNCHANGED usedPages
    ELSE DrivePage(s) /\ Await(s, "login_fallback_wait") /\ UNCHANGED err

\* the login page load settles; on success the page is given 3 s and its
\* title is read
LoginGotoResolved(s) ==
    /\ cpu = 0
    /\ pc[s] = "login_goto_wait"
    /\ \E ok \in BOOLEAN :
         IF ok THEN Await(s, "login_title_wait") /\ UNCHANGED <<err, usedPages>>
               ELSE LoginFallback(s)
    /\ UNCHANGED <<svcVars, scraperVars, browserVars, localVars, progVars>>

\* page.title() settles
LoginTitleResolved(s) ==
    /\ cpu = 0
    /\ pc[s] = "login_title_wait"
    /\ \E ok \in BOOLEAN :
         IF ok THEN Continue(s, "login_25") /\ UNCHANGED <<err, usedPages>>
               ELSE LoginFallback(s)
    /\ UNCHANGED <<svcVars, scraperVars, browserVars, localVars, progVars>>

\* the fallback navigation settles; its failure leaves waitForUserLogin
LoginFallbackResolved(s) ==
    /\ cpu = 0
    /\ pc[s] = "login_fallback_wait"
    /\ \E ok \in BOOLEAN :
         IF ok THEN Continue(s, "login_25") /\ UNCHANGED err
               ELSE Raise(s, "login_catch", ErrPageLoad)
    /\ UNCHANGED <<svcVars, scraperVars, browserVars, localVars, progVars, usedPages>>

\* a loop test that gives up one check early
LoginLoopContinues_OneLess(n) == n < maxAttempts - 1

\* a loop test that allows one more check
LoginLoopContinues_OneMore(n) == n <= maxAttempts

\* while (loginAttempts < maxAttempts)
LoginLoopContinues(n) == n < maxAttempts

\* the loop test with n attempts made: wait 5 s for the next check, or give
\* up.  loginAttempts is a local: it is kept while the loop runs and, as the
\* number of checks that failed, after the loop gave up.
LoginLoop(s, n) ==
    IF LoginLoopContinues(n)
    THEN IF page = NoBrowser
         THEN /\ Raise(s, "login_catch", ErrNullPage)
              /\ loginAttempts' = [loginAttempts EXCEPT ![s] = 0]
         ELSE /\ Await(s, "login_poll_wait")
              /\ loginAttempts' = [loginAttempts EXCEPT ![s] = n]
              /\ UNCHANGED err
    ELSE /\ Raise(s, "login_catch", ErrLoginTimeout)
         /\ loginAttempts' = [loginAttempts EXCEPT ![s] = n]

\* 20 + (loginAttempts / maxAttempts) * 10
StillWaitingPct(n) == 20 + (n * 10) \div maxAttempts

\* a counter that is never incremented
Incremented_Stuck(n) == n

\* loginAttempts++
Incremented(n) == n + 1

\* loginAttempts++ and the 'Still waiting for login' event of every minute
NextLoginAttempt(s) ==
    LET n == Incremented(loginAttempts[s]) IN
    IF n % ProgressEvery = 0
    THEN \E thr \in CbOutcomes(progressCallback) :
           /\ UpdateProgress(s, StillWaitingPct(n), thr)
           /\ IF thr THEN /\ Raise(s, "login_catch", ErrCallback)
                          /\ loginAttempts' = [loginAttempts EXCEPT ![s] = 0]
                     ELSE LoginLoop(s, n)
    ELSE LoginLoop(s, n) /\ UNCHANGED progVars

\* progress 25, loginAttempts = 0, first iteration of the polling loop
LoginPrompt(s) ==
    /\ cpu = s
    /\ pc[s] = "login_25"
    /\ \E thr \in CbOutcomes(progressCallback) :
         /\ UpdateProgress(s, 25, thr)
         /\ IF thr THEN Raise(s, "login_catch", ErrCallback) /\ UNCHANGED loginAttempts
                   ELSE LoginLoop(s, 0)
    /\ UNCHANGED <<svcVars, scraperVars, browserVars, usedPages>>
    /\ UNCHANGED <<cbArg, urlIdx, navigationSuccess, portfolioData, pageSummary, result>>

\* the check about to be made is the last one a user of overlapping sessions
\* lets pass
LastOverlapCheck(s) == overlap /\ loginAttempts[s] + 1 >= MaxOverlapChecks

\* the 5 s wait is over: read page.url(); off the login URL, look for markers
LoginPollResolved(s) ==
    /\ cpu = 0
    /\ pc[s] = "login_poll_wait"
    /\ IF page = NoBrowser
       THEN /\ Raise(s, "login_catch", ErrNullPage)
            /\ loginAttempts' = [loginAttempts EXCEPT ![s] = 0]
            /\ UNCHANGED <<progVars, usedPages>>
       ELSE \E offLoginUrl \in BOOLEAN :
              /\ LastOverlapCheck(s) => offLoginUrl
              /\ IF offLoginUrl
                 THEN /\ DrivePage(s)
                      /\ Await(s, "login_eval_wait")
                      /\ UNCHANGED <<loginAttempts, progVars, err>>
                 ELSE NextLoginAttempt(s) /\ UNCHANGED usedPages
    /\ UNCHANGED <<svcVars, scraperVars, browserVars>>
    /\ UNCHANGED <<cbArg, urlIdx, navigationSuccess, portfolioData, pageSummary, result>>

\* page.evaluate(marker check) settles
LoginEvalResolved(s) ==
    /\ cpu = 0
    /\ pc[s] = "login_eval_wait"
    /\ \E r \in {"marker", "nomarker", "throw"} :
         /\ LastOverlapCheck(s) => r # "nomarker"
         /\ CASE r = "throw" ->
                   /\ Raise(s, "login_catch", ErrEvaluate)
                   /\ loginAttempts' = [loginAttempts EXCEPT ![s] = 0]
                   /\ UNCHANGED <<isLoggedIn, progVars>>
              [] r = "nomarker" ->
                   /\ NextLoginAttempt(s)
                   /\ UNCHANGED isLoggedIn
              [] r = "marker" ->
                   /\ isLoggedIn' = TRUE
                   /\ loginAttempts' = [loginAttempts EXCEPT ![s] = 0]
                   /\ \E thr \in CbOutcomes(progressCallback) :
                        /\ UpdateProgress(s, 35, thr)
                        /\ IF thr THEN Raise(s, "login_catch", ErrCallback)
                                  ELSE Continue(s, "nav_40") /\ UNCHANGED err
    /\ UNCHANGED <<svcVars, browser, page, progressCallback, browserVars, usedPages>>
    /\ UNCHANGED <<cbArg, urlIdx, navigationSuccess, portfolioData, pageSummary, result>>

\* ---- navigateToHoldings -----------------------------------------------------

\* a loop exit that never throws
NavigationFailed_Never(ns) == FALSE

\* if (!navigationSuccess) throw new Error('Unable to navigate ...')
NavigationFailed(ns) == ~ns

\* a loop exit that goes on to extraction whatever the loop found
NavExit_GoesOn(s, ns) == Continue(s, "scr_60") /\ UNCHANGED err

\* after the for loop: throw, or return true to performAutomatedScraping
NavExit(s, ns) ==
    IF NavigationFailed(ns) THEN Raise(s, "nav_catch", ErrNavigation)
                            ELSE Continue(s, "scr_60") /\ UNCHANGED err

\* the for loop arriving at holdingsUrls[i]: page.goto(url).  A null page
\* throws inside the per-URL try, for this and for every later candidate.
\* urlIdx is a local: it is kept while the loop runs and, past the last
\* candidate, after the loop ran out of candidates.
TryUrl(s, i, ns) ==
    IF i > NumHoldingsUrls \/ page = NoBrowser
    THEN /\ urlIdx' = [urlIdx EXCEPT ![s] = NumHoldingsUrls + 1]
         /\ NavExit(s, ns)
         /\ UNCHANGED usedPages
    ELSE /\ urlIdx' = [urlIdx EXCEPT ![s] = i]
         /\ DrivePage(s)
         /\ Await(s, "nav_goto_wait")
         /\ UNCHANGED err

\* progress 40 and the first candidate URL
NavigateToHoldings(s) ==
    /\ cpu = s
    /\ pc[s] = "nav_40"
    /\ \E thr \in CbOutcomes(progressCallback) :
         /\ UpdateProgress(s, 40, thr)
         /\ IF thr THEN /\ Raise(s, "nav_catch", ErrCallback)
                        /\ UNCHANGED <<urlIdx, navigationSuccess, usedPages>>
                   ELSE /\ navigationSuccess' = [navigationSuccess EXCEPT ![s] = FALSE]
                        /\ TryUrl(s, 1, FALSE)
    /\ UNCHANGED <<svcVars, scraperVars, browserVars>>
    /\ UNCHANGED <<cbArg, loginAttempts, portfolioData, pageSummary, result>>

\* page.goto(url) settles: a load error makes only this candidate fail
NavGotoResolved(s) ==
    /\ cpu = 0
    /\ pc[s] = "nav_goto_wait"
    /\ \E ok \in BOOLEAN :
         IF ok THEN Await(s, "nav_settle_wait") /\ UNCHANGED <<urlIdx, usedPages, err>>
               ELSE TryUrl(s, urlIdx[s] + 1, navigationSuccess[s])
    /\ UNCHANGED <<svcVars, scraperVars, browserVars, progVars>>
    /\ UNCHANGED <<cbArg, loginAttempts, navigationSuccess, portfolioData, pageSummary, result>>

\* the 3 s wait is over: page.evaluate(holdings indicators)
NavSettleResolved(s) ==
    /\ cpu = 0
    /\ pc[s] = "nav_settle_wait"
    /\ IF page = NoBrowser
       THEN TryUrl(s, urlIdx[s] + 1, navigationSuccess[s])
       ELSE DrivePage(s) /\ Await(s, "nav_eval_wait") /\ UNCHANGED <<urlIdx, err>>
    /\ UNCHANGED <<svcVars, scraperVars, browserVars, progVars>>
    /\ UNCHANGED <<cbArg, loginAttempts, navigationSuccess, portfolioData, pageSummary, result>>

\* the indicator check settles: holdings markup stops the loop (break)
NavEvalResolved(s) ==
    /\ cpu = 0
    /\ pc[s] = "nav_eval_wait"
    /\ \E r \in {"holdings", "nothing", "throw"} :
         IF r = "holdings"
         THEN /\ navigationSuccess' = [navigationSuccess EXCEPT ![s] = TRUE]
              /\ \E thr \in CbOutcomes(progressCallback) :
                   /\ UpdateProgress(s, 50, thr)
                   /\ IF thr THEN TryUrl(s, urlIdx[s] + 1, TRUE)
                             ELSE /\ urlIdx' = [urlIdx EXCEPT ![s] = 0]
                                  /\ NavExit(s, TRUE)
                                  /\ UNCHANGED usedPages
         ELSE /\ TryUrl(s, urlIdx[s] + 1, navigationSuccess[s])
              /\ UNCHANGED <<navigationSuccess, progVars>>
    /\ UNCHANGED <<svcVars, scraperVars, browserVars>>
    /\ UNCHANGED <<cbArg, loginAttempts, portfolioData, pageSummary, result>>

\* ---- scrapeHoldings ---------------------------------------------------------

\* progress 60 and the 3 s wait for the data to load
ScrapeHoldings(s) ==
    /\ cpu = s
    /\ pc[s] = "scr_60"
    /\ \E thr \in CbOutcomes(progressCallback) :
         /\ UpdateProgress(s, 60, thr)
         /\ IF thr THEN Raise(s, "scr_catch", ErrCallback)
            ELSE IF page = NoBrowser THEN Raise(s, "scr_catch", ErrNullPage)
            ELSE Await(s, "scr_settle_wait") /\ UNCHANGED err
    /\ UNCHANGED <<svcVars, scraperVars, browserVars, localVars, usedPages>>

\* the wait is over: page.evaluate(scroll through the page)
ScrapeSettleResolved(s) ==
    /\ cpu = 0
    /\ pc[s] = "scr_settle_wait"
    /\ IF page = NoBrowser
       THEN Raise(s, "scr_catch", ErrNullPage) /\ UNCHANGED usedPages
       ELSE DrivePage(s) /\ Await(s, "scr_scroll_wait") /\ UNCHANGED err
    /\ UNCHANGED <<svcVars, scraperVars, browserVars, localVars, progVars>>

\* the scroll settles: page.evaluate(extraction)
ScrollResolved(s) ==
    /\ cpu = 0
    /\ pc[s] = "scr_scroll_wait"
    /\ \E ok \in BOOLEAN :
         IF ~ok THEN Raise(s, "scr_catch", ErrEvaluate) /\ UNCHANGED usedPages
         ELSE IF page = NoBrowser THEN Raise(s, "scr_catch", ErrNullPage) /\ UNCHANGED usedPages
         ELSE DrivePage(s) /\ Await(s, "scr_extract_wait") /\ UNCHANGED err
    /\ UNCHANGED <<svcVars, scraperVars, browserVars, localVars, progVars>>

\* the data object built in the page: n fragments gave a valid record, and
\* the summary holds the fields observed on the page
ExtractedData(n, observed) ==
    [kind |-> "snapshot",
     holdings |-> [i \in 1..n |-> i],
     portfolioSummary |-> observed,
     metadata |-> TRUE]

\* the extraction settles; progress 80 reports the number of holdings
ExtractResolved(s) ==
    /\ cpu = 0
    /\ pc[s] = "scr_extract_wait"
    /\ \E ok \in BOOLEAN :
         IF ~ok
         THEN /\ Raise(s, "scr_catch", ErrEvaluate)
              /\ UNCHANGED <<portfolioData, pageSummary, progVars>>
         ELSE \E n \in 0..MaxHoldings, observed \in SummaryChoices :
                /\ portfolioData' = [portfolioData EXCEPT ![s] = ExtractedData(n, observed)]
                /\ pageSummary' = [pageSummary EXCEPT ![s] = observed]
                /\ \E thr \in CbOutcomes(progressCallback) :
                     /\ UpdateProgress(s, 80, thr)
                     /\ IF thr THEN Raise(s, "scr_catch", ErrCallback)
                               ELSE Continue(s, "close_95") /\ UNCHANGED err
    /\ UNCHANGED <<svcVars, scraperVars, browserVars, usedPages>>
    /\ UNCHANGED <<cbArg, loginAttempts, urlIdx, navigationSuccess, result>>

\* ---- close and the results of performAutomatedScraping ----------------------

\* a result whose summary is filled with every field
SuccessResult_FilledSummary(pd) ==
    [status |-> "success",
     message |-> "Successfully scraped holdings with comprehensive data from Groww",
     data |-> [kind |-> "snapshot",
               holdings |-> pd.holdings,
               portfolioSummary |-> SummaryFields,
               metadata |-> pd.metadata]]

\* the object returned after close(): the extracted data, passed through
SuccessResult(pd) ==
    [status |-> "success",
     message |-> "Successfully scraped holdings with comprehensive data from Groww",
     data |-> [kind |-> "snapshot",
               holdings |-> pd.holdings,
               portfolioSummary |-> pd.portfolioSummary,
               metadata |-> pd.metadata]]

\* a catch block that returns what was extracted so far
FailureResult_KeepsData(e, pd) == [status |-> "failure", message |-> e, data |-> pd]

\* the object returned from the catch block: { success: false, data: [], message }
FailureResult(e, pd) == [status |-> "failure", message |-> e, data |-> EmptyArray]

\* the promise rejects: updateProgress threw inside the catch block
Rejected(e) == [status |-> "rejected", message |-> e, data |-> NoData]

\* performAutomatedScraping settles; the awaiting service resumes later
Settle(s, r) ==
    /\ result' = [result EXCEPT ![s] = r]
    /\ Await(s, "svc_after")

\* if (this.browser) in close()
CloseNeeded == browser # NoBrowser

\* a catch block that leaves the browser open
CatchCloseNeeded_Never == FALSE

\* if (this.browser) in the catch block of performAutomatedScraping
CatchCloseNeeded == browser # NoBrowser

\* this.browser.close() is invoked by session s
InvokeClose(s) ==
    /\ closeCalls' = [closeCalls EXCEPT ![browser][s] = @ + 1]
    /\ closing' = [closing EXCEPT ![s] = browser]

\* close(): progress 95, then browser.close() when a browser is held.
\* An exception of the callback is swallowed by close()'s own catch.
Close(s) ==
    /\ cpu = s
    /\ pc[s] = "close_95"
    /\ \E thr \in CbOutcomes(progressCallback) :
         /\ UpdateProgress(s, 95, thr)
         /\ IF thr THEN Settle(s, SuccessResult(portfolioData[s])) /\ UNCHANGED <<closeCalls, closing>>
            ELSE IF CloseNeeded THEN InvokeClose(s) /\ Await(s, "close_wait") /\ UNCHANGED result
            ELSE Continue(s, "close_100") /\ UNCHANGED <<closeCalls, closing, result>>
    /\ UNCHANGED <<svcVars, scraperVars, browserState, launched, initCalls, err, usedPages>>
    /\ UNCHANGED <<cbArg, loginAttempts, urlIdx, navigationSuccess, portfolioData, pageSummary>>

\* browser.close() of close() settles: on success the handles are dropped;
\* on failure close() returns false and the run still returns its data
CloseResolved(s) ==
    /\ cpu = 0
    /\ pc[s] = "close_wait"
    /\ \E ok \in BOOLEAN :
         IF ok
         THEN /\ browserState' = [browserState EXCEPT ![closing[s]] = "closed"]
              /\ browser' = NoBrowser
              /\ page' = NoBrowser
              /\ Continue(s, "close_100")
              /\ UNCHANGED result
         ELSE /\ Settle(s, SuccessResult(portfolioData[s]))
              /\ UNCHANGED <<browserState, browser, page>>
    /\ UNCHANGED <<svcVars, isLoggedIn, progressCallback, closeCalls, closing, launched, initCalls>>
    /\ UNCHANGED <<progVars, err, usedPages>>
    /\ UNCHANGED <<cbArg, loginAttempts, urlIdx, navigationSuccess, portfolioData, pageSummary>>

\* progress 100 at the end of close(), then the success result
CloseDone(s) ==
    /\ cpu = s
    /\ pc[s] = "close_100"
    /\ \E thr \in CbOutcomes(progressCallback) : UpdateProgress(s, 100, thr)
    /\ Settle(s, SuccessResult(portfolioData[s]))
    /\ UNCHANGED <<svcVars, scraperVars, browserVars, err, usedPages>>
    /\ UNCHANGED <<cbArg, loginAttempts, urlIdx, navigationSuccess, portfolioData, pageSummary>>

\* catch (error) of performAutomatedScraping: close the browser if one is held
CatchClose(s) ==
    /\ cpu = s
    /\ pc[s] = "catch_close"
    /\ IF CatchCloseNeeded
       THEN InvokeClose(s) /\ Await(s, "catch_close_wait")
       ELSE Continue(s, "catch_report") /\ UNCHANGED <<closeCalls, closing>>
    /\ UNCHANGED <<svcVars, scraperVars, browserState, launched, initCalls, localVars, progVars, err, usedPages>>

\* a catch block that reports the error of browser.close()
ErrorAfterCatchClose_CloseError(e, ok) == IF ok THEN e ELSE ErrClose

\* the error the catch block goes on with once browser.close() has settled:
\* catch (closeError) only logs, error is untouched
ErrorAfterCatchClose(e, ok) == e

\* browser.close() of the catch block settles
CatchCloseResolved(s) ==
    /\ cpu = 0
    /\ pc[s] = "catch_close_wait"
    /\ \E ok \in BOOLEAN :
         /\ browserState' = IF ok THEN [browserState EXCEPT ![closing[s]] = "closed"]
                                  ELSE browserState
         /\ err' = [err EXCEPT ![s] = ErrorAfterCatchClose(@, ok)]
    /\ pc' = [pc EXCEPT ![s] = "catch_report"]
    /\ cpu' = s
    /\ UNCHANGED <<svcVars, scraperVars, closeCalls, closing, launched, initCalls>>
    /\ UNCHANGED <<localVars, progVars, usedPages>>

\* progress 0 'Scraping failed', then the failure result
CatchReport(s) ==
    /\ cpu = s
    /\ pc[s] = "catch_report"
    /\ \E thr \in CbOutcomes(progressCallback) :
         /\ UpdateProgress(s, 0, thr)
         /\ Settle(s, IF thr THEN Rejected(ErrCallback)
                             ELSE FailureResult(err[s], portfolioData[s]))
    /\ UNCHANGED <<svcVars, scraperVars, browserVars, err, usedPages>>
    /\ UNCHANGED <<cbArg, loginAttempts, urlIdx, navigationSuccess, portfolioData, pageSummary>>

\* ---- syncGrowwAccountRealTime after the scraper settled ---------------------

\* the error that enters the catch block of syncGrowwAccountRealTime:
\* the scraper's failure, or the TypeError of calling processScrapedData,
\* which ScrapingService does not define
SyncError(r) == IF r.status = "success" THEN ErrNotAFunction ELSE r.message

\* catch block: removeProgressCallback, then updateAccountSyncStatus
SyncAfterScraping(s) ==
    /\ cpu = 0
    /\ pc[s] = "svc_after"
    /\ progressCallbacks' = RemoveProgressCallback(s)
    /\ err' = [err EXCEPT ![s] = SyncError(result[s])]
    /\ Await(s, "svc_status_wait")
    /\ UNCHANGED <<overlap, realScraper, puppeteerInstalled, lastSyncStatus, outcome>>
    /\ UNCHANGED <<scraperVars, browserVars, localVars, progVars, usedPages>>

\* updateAccountSyncStatus settles: the sync error is rethrown with a prefix,
\* unless the status update itself threw
SyncStatusResolved(s) ==
    /\ cpu = 0
    /\ pc[s] = "svc_status_wait"
    /\ \E ok \in BOOLEAN :
         IF ok
         THEN /\ lastSyncStatus' = [lastSyncStatus EXCEPT ![s] = "failed"]
              /\ outcome' = [outcome EXCEPT ![s] = Thrown(<<ErrSyncPrefix, err[s]>>)]
         ELSE /\ UNCHANGED lastSyncStatus
              /\ outcome' = [outcome EXCEPT ![s] = Thrown(<<ErrStatusUpdate>>)]
    /\ pc' = [pc EXCEPT ![s] = "done"]
    /\ UNCHANGED <<overlap, realScraper, puppeteerInstalled, progressCallbacks>>
    /\ UNCHANGED <<scraperVars, browserVars, localVars, progVars, cpu, err, usedPages>>

\* the request is over; the next request that uses this slot is a new session
\* with a new id, a new callback and a new browser.  What the finished
\* session left in the scraper and in the registry stays there, as Stale.
Renamed(s, h) == IF h = s THEN Stale ELSE h

Restart(s) ==
    /\ cpu = 0
    /\ pc[s] = "done"
    /\ pc' = [pc EXCEPT ![s] = "idle"]
    /\ browser' = Renamed(s, browser)
    /\ page' = Renamed(s, page)
    /\ progressCallback' = Renamed(s, progressCallback)
    /\ progressCallbacks' = {Renamed(s, c) : c \in progressCallbacks}
    /\ browserState' = [browserState EXCEPT
                          ![Stale] = IF browser = s THEN browserState[s] ELSE @,
                          ![s] = "none"]
    /\ closeCalls' = [b \in Handles |->
                        [t \in Sessions |->
                           IF t = s \/ b = s THEN 0
                           ELSE IF b = Stale THEN closeCalls[Stale][t] + closeCalls[s][t]
                           ELSE closeCalls[b][t]]]
    /\ usedPages' = [t \in Sessions |->
                        IF t = s THEN {} ELSE {Renamed(s, h) : h \in usedPages[t]}]
    /\ closing' = [t \in Sessions |-> IF t = s THEN NoBrowser ELSE Renamed(s, closing[t])]
    /\ launched' = [launched EXCEPT ![s] = FALSE]
    /\ initCalls' = [initCalls EXCEPT ![s] = 0]
    /\ outcome' = [outcome EXCEPT ![s] = NoOutcome]
    /\ lastSyncStatus' = [lastSyncStatus EXCEPT ![s] = "none"]
    /\ result' = [result EXCEPT ![s] = NoResult]
    /\ cbArg' = [cbArg EXCEPT ![s] = NoCallback]
    /\ loginAttempts' = [loginAttempts EXCEPT ![s] = 0]
    /\ urlIdx' = [urlIdx EXCEPT ![s] = 0]
    /\ navigationSuccess' = [navigationSuccess EXCEPT ![s] = FALSE]
    /\ portfolioData' = [portfolioData EXCEPT ![s] = NoData]
    /\ pageSummary' = [pageSummary EXCEPT ![s] = {}]
    /\ err' = [err EXCEPT ![s] = ""]
    /\ lastPct' = [lastPct EXCEPT ![s] = -1]
    /\ saw100' = [saw100 EXCEPT ![s] = FALSE]
    /\ cbThrew' = [cbThrew EXCEPT ![s] = FALSE]
    /\ UNCHANGED <<overlap, realScraper, puppeteerInstalled, isLoggedIn, cpu>>

\* ---- page.evaluate of scrapeHoldings: foundElements.forEach --------------------

\* what the forEach callback makes of each element of the model
Skipped == {el \in Elements : IsHeaderOrEmpty(el)}
Extracted == [el \in Elements \ Skipped |-> StockData(el)]
Pushed == {el \in Elements \ Skipped : IsValidHolding(el, Extracted[el])}

\* the forEach arrives at the next element of the page
NextElement ==
    /\ visited = index
    /\ index < MaxElements
    /\ \E el \in Elements : element' = el
    /\ index' = index + 1
    /\ UNCHANGED <<visited, holdings>>

\* header or empty element: return
SkipElement ==
    /\ visited < index
    /\ element \in Skipped
    /\ visited' = index
    /\ UNCHANGED <<element, index, holdings>>

\* data.holdings.push(stockData)
AddHolding ==
    /\ visited < index
    /\ element \in Pushed
    /\ holdings' = Append(holdings, Extracted[element])
    /\ visited' = index
    /\ UNCHANGED <<element, index>>

\* the element is not a valid holding: nothing is pushed
RejectElement ==
    /\ visited < index
    /\ element \in Elements \ (Skipped \cup Pushed)
    /\ visited' = index
    /\ UNCHANGED <<element, index, holdings>>

\* ---- specifications ---------------------------------------------------------

Step(s) ==
    \/ SetProgressCallback(s)
    \/ SyncGrowwAccountRealTime(s)
    \/ FindAccountResolved(s)
    \/ PerformAutomatedScraping(s)
    \/ InitializeInteractiveBrowser(s)
    \/ LaunchResolved(s)
    \/ NewPageResolved(s)
    \/ ViewportResolved(s)
    \/ UserAgentResolved(s)
    \/ InnerCatch(s)
    \/ LoginConnect(s)
    \/ LoginGotoResolved(s)
    \/ LoginTitleResolved(s)
    \/ LoginFallbackResolved(s)
    \/ LoginPrompt(s)
    \/ LoginPollResolved(s)
    \/ LoginEvalResolved(s)
    \/ NavigateToHoldings(s)
    \/ NavGotoResolved(s)
    \/ NavSettleResolved(s)
    \/ NavEvalResolved(s)
    \/ ScrapeHoldings(s)
    \/ ScrapeSettleResolved(s)
    \/ ScrollResolved(s)
    \/ ExtractResolved(s)
    \/ Close(s)
    \/ CloseResolved(s)
    \/ CloseDone(s)
    \/ CatchClose(s)
    \/ CatchCloseResolved(s)
    \/ CatchReport(s)
    \/ SyncAfterScraping(s)
    \/ SyncStatusResolved(s)

\* requests served one after the other: a session runs while no other is
\* under way, and a finished slot serves the next request
InTurn(s) == \A t \in Sessions \ {s} : pc[t] = "idle"

Next ==
    /\ \E s \in Sessions : InTurn(s) /\ (Step(s) \/ Restart(s))
    /\ UNCHANGED <<evaluateVars, discoverVars, progressVars, storeVars>>

Spec == Init /\ [][Next]_vars

\* every call made to the browser capability, to the file store or to a
\* callback returns or fails, and the event loop runs what is ready
Fairness == WF_vars(Next)

SpecLive == Spec /\ Fairness

\* sessions started by overlapping requests on the one ScrapingService
NextConcurrent ==
    /\ \E s \in Sessions : Step(s)
    /\ UNCHANGED <<evaluateVars, discoverVars, progressVars, storeVars>>

SpecConcurrent == InitConcurrent /\ [][NextConcurrent]_vars

\* the extraction that page.evaluate runs in the holdings page
InitExtract == Init /\ realScraper /\ puppeteerInstalled

NextExtract ==
    /\ NextElement \/ SkipElement \/ AddHolding \/ RejectElement
    /\ UNCHANGED <<sessionVars, discoverVars, progressVars, storeVars>>

SpecExtract == InitExtract /\ [][NextExtract]_vars

\* the discovery of the fragments, on every page of the model
NextDiscover ==
    /\ Evaluate \/ SelectorPass \/ SectionPass
    /\ UNCHANGED <<sessionVars, evaluateVars, progressVars, storeVars>>

SpecDiscover == InitExtract /\ [][NextDiscover]_vars

\* the progress events of a request, through either service method
NextProgress ==
    /\ SyncWithGroww \/ TestGroww \/ Progress
    /\ UNCHANGED <<sessionVars, evaluateVars, discoverVars, storeVars>>

SpecProgress == InitExtract /\ [][NextProgress]_vars

\* requests that change stocks.json, each on the stocks of its own account
NextStore ==
    /\ \E c \in Clients :
          \/ AddItem(c) \/ UpdateById(c) \/ DeleteById(c) \/ ProcessScrapedHoldings(c)
          \/ ReadJsonFile(c) \/ WriteJsonFile(c)
    /\ UNCHANGED <<sessionVars, evaluateVars, discoverVars, progressVars>>

SpecStore == InitExtract /\ [][NextStore]_vars

TypeOK ==
    /\ browser \in {NoBrowser} \cup Handles
    /\ page \in {NoBrowser} \cup Handles
    /\ progressCallback \in {NoCallback} \cup Handles
    /\ progressCallbacks \subseteq Handles
    /\ cpu \in {0} \cup Sessions
    /\ \A s \in Sessions : loginAttempts[s] \in 0..maxAttempts
    /\ \A s \in Sessions : urlIdx[s] \in 0..(NumHoldingsUrls + 1)
    /\ \A s \in Sessions : lastPct[s] \in -1..100

\* ---- claims -----------------------------------------------------------------

\* C9: with sessions running concurrently, each session owns its browser:
\* a session drives only the page of the browser it launched, a launched
\* browser is closed by nobody but the session that launched it and by that
\* session at most once, and once every session has returned each launched
\* browser has been closed exactly once by its own session.
C9_SessionOwnsBrowser ==
    /\ \A s \in Sessions : usedPages[s] \subseteq {s}
    /\ \A b \in Sessions : \A s \in Sessions \ {b} : closeCalls[b][s] = 0
    /\ \A s \in Sessions : closeCalls[s][s] <= 1
    /\ (\A s \in Sessions : pc[s] = "done")
          => \A b \in Sessions : launched[b] => closeCalls[b][b] = 1

\* ---- positions ---------------------------------------------------------------

\* performAutomatedScraping has settled for session s
Returned(s) == result[s].status # "none"

\* inside the catch block of performAutomatedScraping, or past it
FailingPcs == {"catch_close", "catch_close_wait", "catch_report"}
AfterScrapingPcs == {"svc_after", "svc_status_wait", "done"}

LoginPcs == {"login_15", "login_goto_wait", "login_title_wait", "login_fallback_wait",
             "login_25", "login_poll_wait", "login_eval_wait", "login_catch"}
NavPcs == {"nav_40", "nav_goto_wait", "nav_settle_wait", "nav_eval_wait", "nav_catch"}
ScrapePcs == {"scr_60", "scr_settle_wait", "scr_scroll_wait", "scr_extract_wait", "scr_catch"}
ClosePcs == {"close_95", "close_wait", "close_100"}

C2_ProgressNonDecreasing ==
    [][\A s \in Sessions : pc[s] # "done" => lastPct'[s] >= lastPct[s]]_vars

\* C3: a session whose callback returned normally emits 100 iff it succeeds:
\* a success result has 100 as its last event, a failure result has never
\* emitted 100.
C3_HundredIffSuccess ==
    \A s \in Sessions :
        /\ (result[s].status = "success" /\ ~cbThrew[s]) => lastPct[s] = 100
        /\ result[s].status = "failure" => ~saw100[s]

C8_CallbackRemoved ==
    \A s \in Sessions : pc[s] = "done" => s \notin progressCallbacks

\* C10: a failure result carries no snapshot data (data is the empty array),
\* also when extraction had already produced data; a success result carries
\* the complete snapshot that extraction produced.
C10_SnapshotAllOrNothing ==
    \A s \in Sessions :
        /\ result[s].status = "failure" => result[s].data = EmptyArray
        /\ result[s].status = "success" =>
               /\ portfolioData[s].kind = "snapshot"
               /\ result[s].data = portfolioData[s]

\* a run failed after extraction had produced a snapshot with holdings
C10_Witness ==
    \E s \in Sessions :
        /\ result[s].status = "failure"
        /\ portfolioData[s].kind = "snapshot"
        /\ portfolioData[s].holdings # <<>>

\* the browser.close() that session s invoked has settled with an error
CloseFailed(s) ==
    /\ closing[s] # NoBrowser
    /\ pc[s] \notin {"close_wait", "catch_close_wait"}
    /\ browserState[closing[s]] # "closed"

\* the error that took the run into its catch block, "" on the success path
FirstError(s) == IF portfolioData[s] # NoData /\ ~cbThrew[s] THEN "" ELSE err[s]

\* C11: when browser.close() has failed, the run that just returned has the
\* result it would have had otherwise: after a successful extraction it is
\* success with the extracted snapshot; while handling an earlier failure it
\* is failure with that failure's message; the only rejection is the one of
\* a throwing progress callback, never the close error.
C11_CloseFailureKeepsResult ==
    \A s \in Sessions :
        (pc[s] = "svc_after" /\ CloseFailed(s)) =>
            IF FirstError(s) = ""
            THEN /\ result[s].status = "success"
                 /\ result[s].data = portfolioData[s]
            ELSE \/ /\ result[s].status = "failure"
                    /\ result[s].message = err[s]
                    /\ result[s].message # ErrClose
                    /\ (loginAttempts[s] = maxAttempts /\ ~cbThrew[s])
                           => result[s].message = ErrLoginTimeout
                    /\ (urlIdx[s] > NumHoldingsUrls /\ ~navigationSuccess[s] /\ ~cbThrew[s])
                           => result[s].message = ErrNavigation
                 \/ /\ result[s].status = "rejected"
                    /\ result[s].message = ErrCallback
                    /\ cbThrew[s]

\* a run returned the login timeout although closing its browser failed
C11_Witness ==
    \E s \in Sessions :
        /\ pc[s] = "svc_after"
        /\ CloseFailed(s)
        /\ closing[s] = s
        /\ result[s].status = "failure"
        /\ result[s].message = ErrLoginTimeout

\* C12: every call of the capability returning or failing, a run of
\* performAutomatedScraping that has started eventually returns a result;
\* the login wait never counts more than maxAttempts checks, and within a
\* run the candidate index only moves forward, over the NumHoldingsUrls
\* candidates, so that no candidate is loaded twice.
C12_RunReturns ==
    /\ [](\A s \in Sessions : loginAttempts[s] <= maxAttempts /\ urlIdx[s] <= NumHoldingsUrls + 1)
    /\ [][\A s \in Sessions : urlIdx'[s] # urlIdx[s] => (urlIdx'[s] > urlIdx[s] \/ urlIdx'[s] = 0)]_vars
    /\ \A s \in Sessions : (pc[s] = "pas_start") ~> Returned(s)

\* a run has returned after the login wait made all its checks
C12_Witness ==
    \E s \in Sessions :
        /\ pc[s] = "done"
        /\ loginAttempts[s] = maxAttempts
        /\ result[s].message = ErrLoginTimeout

\* ---- extraction claims -------------------------------------------------------

\* the callback of the current element has returned
Visited == index >= 1 /\ visited = index

\* C13: in every record of data.holdings, investedValue, when it was not
\* read off the page, equals units * avgBuyPrice; profitLoss, when it was not
\* read off the page, equals totalValue - investedValue; and
\* profitLossPercentage, when it was not read off the page and investedValue
\* is positive, equals profitLoss / investedValue * 100.
C13_DerivedFields ==
    \A i \in 1..Len(holdings) :
        LET h == holdings[i] IN
        /\ "investedValue" \notin h.observed => h.investedValue = Times(h.units, h.avgBuyPrice)
        /\ "profitLoss" \notin h.observed => h.profitLoss = h.totalValue - h.investedValue
        /\ ("profitLossPercentage" \notin h.observed /\ h.investedValue > 0)
              => h.profitLossPercentage = PercentOf(h.profitLoss, h.investedValue)

\* elements that give neither a name nor a symbol
Nameless == {el \in Elements \ Skipped : Extracted[el].name = "" /\ Extracted[el].symbol = ""}

\* C14: every record of data.holdings has a non-empty name or symbol, and the
\* callback of an element that gives neither a name nor a symbol (whatever
\* its amounts, so also when none is positive) leaves data.holdings as it is.
C14_NamelessNeverPushed ==
    /\ [](\A i \in 1..Len(holdings) : holdings[i].name # "" \/ holdings[i].symbol # "")
    /\ [][(visited < index /\ element \in Nameless) => holdings' = holdings]_vars

\* the callback of a nameless element with a positive price has returned
\* and nothing was pushed
C14_Witness ==
    /\ Visited
    /\ element \in Nameless
    /\ Positive(Extracted[element].currentPrice)
    /\ holdings = <<>>

\* words of the header of the holdings table and of the skip test
HeaderVocabulary ==
    {"stock", "name", "symbol", "quantity", "holding", "portfolio", "company", "qty",
     "avg", "price", "current", "invested", "value", "day", "change", "p&l"}

\* s is made of words of HeaderVocabulary only
OnlyHeaderVocabulary(s) ==
    With(TextParts(s, 1), LAMBDA parts :
        /\ parts # <<>>
        /\ \A k \in 1..Len(parts) :
              \E w \in HeaderVocabulary : Len(w) = Len(parts[k]) /\ LowerStartsAt(parts[k], 1, w))

\* the elements the header rule is about: the text of the header row, a
\* header label in the text, cells or text made of header vocabulary only,
\* or a text shorter than 10 characters
HeaderFragments ==
    {el \in Elements :
        \/ el.text = "Stock Name Symbol Quantity"
        \/ \E label \in {"stock name", "quantity", "holding"} : LowerIncludes(el.text, label)
        \/ OnlyHeaderVocabulary(el.text)
        \/ el.cells # <<>> /\ \A k \in 1..Len(el.cells) : OnlyHeaderVocabulary(el.cells[k])
        \/ Len(el.text) < 10}

\* C15: the callback of a header fragment or of a fragment shorter than the
\* minimum length leaves data.holdings as it is, whatever its cells hold.
C15_HeaderNeverPushed ==
    [][(visited < index /\ element \in HeaderFragments) => holdings' = holdings]_vars

\* the callback of a row with a header label and eight cells of figures has
\* returned and nothing was pushed
C15_Witness ==
    /\ Visited
    /\ element \in HeaderFragments
    /\ Len(element.cells) = 8
    /\ Positive(CellAmount(element, 5))
    /\ holdings = <<>>

\* units, avgBuyPrice, currentPrice, investedValue, totalValue, profitLoss
SixFields(sd) ==
    <<sd.units, sd.avgBuyPrice, sd.currentPrice, sd.investedValue, sd.totalValue, sd.profitLoss>>

\* 19, 5168.90, 6930.00, 98209.10, 131670.00, 33460.90
ScenarioRecord == <<1900, 516890, 693000, 9820910, 13167000, 3346090>>

\* C16: the record pushed for the scenario A row and the record pushed for
\* the scenario B text both have units 19, avgBuyPrice 5168.90, currentPrice
\* 6930.00, investedValue 98209.10, totalValue 131670.00, profitLoss 33460.90.
C16_ScenariosConverge ==
    (Visited /\ element \in {ScenarioA, ScenarioB}) =>
        /\ holdings # <<>>
        /\ SixFields(holdings[Len(holdings)]) = ScenarioRecord

\* both scenarios were extracted, one after the other, into equal figures
C16_Witness ==
    /\ Visited
    /\ element = ScenarioB
    /\ Len(holdings) = 2
    /\ SixFields(holdings[1]) = SixFields(holdings[2])
    /\ holdings[1].name = "Nuvama Wealth"
    /\ holdings[2].name = "Nuvama"

\* ---- service claims ----------------------------------------------------------

\* C17: when performAutomatedScraping resolved with success,
\* syncGrowwAccountRealTime ends without throwing and with lastSyncStatus
\* 'success'; lastSyncStatus is 'failed' only when scraping did not succeed.
C17_SuccessIsRecorded ==
    \A s \in Sessions :
        /\ (pc[s] = "done" /\ result[s].status = "success")
              => (lastSyncStatus[s] = "success" /\ outcome[s].kind # "thrown")
        /\ lastSyncStatus[s] = "failed" => result[s].status # "success"

\* ---- order of the phases -------------------------------------------------------

InitPcs == {"init_5", "init_launch_wait", "init_newpage_wait", "init_viewport_wait",
            "init_useragent_wait", "init_catch"}

\* the phase of performAutomatedScraping a position belongs to: 1 browser,
\* 2 login, 3 navigation, 4 extraction, 5 close, 6 catch block, 7 returned,
\* 0 not started
Phase(p) ==
    CASE p \in InitPcs -> 1
      [] p \in LoginPcs -> 2
      [] p \in NavPcs -> 3
      [] p \in ScrapePcs -> 4
      [] p \in ClosePcs -> 5
      [] p \in FailingPcs -> 6
      [] p \in AfterScrapingPcs -> 7
      [] OTHER -> 0

\* from one phase to the next, from a phase that failed to the catch block,
\* from the end of a run to the start of the next
PhaseSteps ==
    {<<0, 1>>, <<1, 2>>, <<2, 3>>, <<3, 4>>, <<4, 5>>, <<5, 7>>, <<6, 7>>, <<7, 0>>, <<0, 7>>}
        \cup {<<k, 6>> : k \in 0..4}

\* C18: a run goes through its phases in order: browser, login, navigation,
\* extraction, close, each entered once and from the phase before it, or
\* from any of the first four to the catch block.  Navigation starts only
\* from the marker check that detected the login, extraction runs only with
\* navigationSuccess set, close() runs only with the extracted data, and no
\* browser.close() is invoked before close() or the catch block.
C18_PhasesInOrder ==
    /\ [][\A s \in Sessions :
             /\ Phase(pc'[s]) # Phase(pc[s]) => <<Phase(pc[s]), Phase(pc'[s])>> \in PhaseSteps
             /\ (Phase(pc'[s]) = 3 /\ Phase(pc[s]) # 3)
                   => (pc[s] = "login_eval_wait" /\ isLoggedIn')]_vars
    /\ [](\A s \in Sessions :
             /\ pc[s] \in ScrapePcs => navigationSuccess[s]
             /\ pc[s] \in ClosePcs => (navigationSuccess[s] /\ portfolioData[s] # NoData)
             /\ (\E b \in Handles : closeCalls[b][s] > 0) => Phase(pc[s]) >= 5)

\* a run went through every phase and returned its data after closing its
\* browser
C18_Witness ==
    \E s \in Sessions :
        /\ pc[s] = "svc_after"
        /\ result[s].status = "success"
        /\ navigationSuccess[s]
        /\ closeCalls[s][s] = 1
        /\ browserState[s] = "closed"

\* ---- what a run leaves behind ------------------------------------------------

\* C19: once performAutomatedScraping has returned, with success or with
\* failure, the scraper holds no browser and no page; and a session never
\* invokes close() on, nor drives the page of, a browser of an earlier
\* session.
C19_NoHandleAfterReturn ==
    \A s \in Sessions :
        /\ (pc[s] \in AfterScrapingPcs /\ Returned(s)) => (browser = NoBrowser /\ page = NoBrowser)
        /\ closeCalls[Stale][s] = 0
        /\ Stale \notin usedPages[s]

\* C20: a session runs with the callback it was given and with no other:
\* the scraper delivers the events of session s to the callback registered
\* for s, or to no callback when none was registered for s, and never to the
\* callback of a session that has ended.
C20_NoCallbackAfterEnd ==
    \A s \in Sessions :
        (pc[s] \in InitPcs \cup LoginPcs \cup NavPcs \cup ScrapePcs \cup ClosePcs \cup FailingPcs)
            => (progressCallback = cbArg[s] /\ progressCallback # Stale)

\* ---- navigation ------------------------------------------------------------------

\* session s calls page.goto on a candidate of holdingsUrls in this step
LoadsCandidate(s) ==
    /\ pc'[s] = "nav_goto_wait"
    /\ pc[s] # "nav_goto_wait" \/ urlIdx'[s] # urlIdx[s]

\* C21: navigateToHoldings loads the candidates in the order of the list,
\* one after the other; a candidate that fails to load or shows no holdings
\* markup is followed by the next one, so that navigation fails only after
\* the last candidate failed; and once a candidate showed holdings markup
\* no further candidate is loaded.
C21_CandidatesInOrder ==
    [][\A s \in Sessions :
          /\ LoadsCandidate(s) => urlIdx'[s] = urlIdx[s] + 1
          /\ (pc[s] \in {"nav_goto_wait", "nav_settle_wait", "nav_eval_wait"} /\ pc'[s] = "nav_catch")
                => urlIdx[s] = NumHoldingsUrls
          /\ navigationSuccess[s] => ~LoadsCandidate(s)]_vars

\* const holdingsUrls = [...]
holdingsUrls ==
    <<"https://groww.in/stocks/user/holdings",
      "https://groww.in/holdings",
      "https://groww.in/portfolio",
      "https://groww.in/dashboard">>

\* the first place of sub in s, 0 when s does not contain it
IndexOf(s, sub) == FirstIndex(Len(s), LAMBDA i : LowerStartsAt(s, i, sub))

\* C22: when navigation failed with every candidate tried, the failure that
\* performAutomatedScraping returns names each URL of holdingsUrls, in the
\* order in which they were tried.
C22_FailureNamesUrls ==
    \A s \in Sessions :
        (result[s].status = "failure" /\ urlIdx[s] = NumHoldingsUrls + 1)
            => /\ \A i \in 1..NumHoldingsUrls : IndexOf(result[s].message, holdingsUrls[i]) > 0
               /\ \A i \in 1..(NumHoldingsUrls - 1) :
                     IndexOf(result[s].message, holdingsUrls[i])
                         < IndexOf(result[s].message, holdingsUrls[i + 1])

\* ---- login detection -----------------------------------------------------------

\* inside the while loop of waitForUserLogin
PollPcs == {"login_poll_wait", "login_eval_wait"}

\* C23: waitForUserLogin reports a login only out of the marker check, which
\* is made only at a check that found the page off the login URL; from a
\* check that does not report a login the loop goes on to the next check;
\* and the loop is left for the catch block only by an error of the page, of
\* the marker check or of the progress callback, or by the timeout after
\* maxAttempts checks.
C23_LoginDetection ==
    [][/\ (isLoggedIn' /\ ~isLoggedIn) => \E s \in Sessions : pc[s] = "login_eval_wait" /\ pc'[s] # pc[s]
       /\ \A s \in Sessions :
          /\ (pc'[s] = "nav_40" /\ pc[s] # "nav_40") => (pc[s] = "login_eval_wait" /\ isLoggedIn')
          /\ (pc'[s] = "login_eval_wait" /\ pc[s] # "login_eval_wait") => pc[s] = "login_poll_wait"
          /\ (pc[s] \in PollPcs /\ pc'[s] # pc[s])
                => pc'[s] \in PollPcs \cup {"nav_40", "login_catch"}
          /\ (pc[s] \in PollPcs /\ pc'[s] = "login_catch")
                => /\ err'[s] \in {ErrLoginTimeout, ErrEvaluate, ErrNullPage, ErrCallback}
                   /\ err'[s] = ErrLoginTimeout => loginAttempts'[s] = maxAttempts]_vars

\* after a minute of checks that found no login, a check finds the page off
\* the login URL and the marker check is under way
C23_Witness ==
    \E s \in Sessions : pc[s] = "login_eval_wait" /\ loginAttempts[s] >= ProgressEvery

\* ---- the orchestrator boundary ---------------------------------------------------

\* C24: performAutomatedScraping never rejects; a run in which a progress
\* callback invocation threw returns a failure result with a message, and
\* the browser it launched has been closed by it once.
C24_NeverRejects ==
    \A s \in Sessions :
        /\ result[s].status # "rejected"
        /\ (Returned(s) /\ cbThrew[s])
              => /\ result[s].status = "failure"
                 /\ result[s].message # ""
                 /\ launched[s] => closeCalls[s][s] = 1

\* ---- discovery -----------------------------------------------------------------------

\* C25: when the discovery is over, no two fragments of allFoundElements have
\* the same textContent and the same innerHTML.
C25_NoDuplicateContent ==
    Discovered =>
        \A i \in 1..Len(allFoundElements) : \A j \in (i + 1)..Len(allFoundElements) :
            ~SameContent(document, allFoundElements[i], allFoundElements[j])

\* ---- the two strategies ---------------------------------------------------------------

\* the callback of the current element has returned and went past the skip test
Processed == Visited /\ element \in Elements \ Skipped

\* parseFloat(qtyText.replace(/[,\s]/g, ''))
QtyAmount(el) == ParseFloat(Remove(Cell(el, 1), {","} \cup WhiteSpace))

\* rows of at least 7 cells whose cells give units, average price and
\* current value
CompleteRows ==
    {el \in Elements :
        /\ Len(el.cells) >= 7
        /\ Positive(QtyAmount(el))
        /\ Positive(CellAmount(el, 2))
        /\ Positive(CellAmount(el, 5))}

\* C26: on every element that is not skipped, the cell strategy runs exactly
\* when the element has at least 7 cells, and the text strategy runs exactly
\* when the cell strategy did not run or did not give all of units, average
\* price and current value; an element with fewer than 7 cells is handled by
\* the text strategy alone.
C26_StrategyChoice ==
    Processed =>
        LET applied == Extracted[element].applied IN
        /\ "cells" \in applied <=> Len(element.cells) >= 7
        /\ "text" \in applied <=> element \notin CompleteRows
        /\ Len(element.cells) < 7 => applied = {"text"}

\* a row of 7 cells or more without a quantity went through both strategies
C26_Witness ==
    /\ Processed
    /\ Len(element.cells) >= 7
    /\ ~Positive(QtyAmount(element))
    /\ Positive(CellAmount(element, 5))
    /\ Extracted[element].applied = {"cells", "text"}

\* the P&L cell of a row of 8 cells: parseFloat(plText.replace(/[₹,\s+]/g, ''))
PlAmount(el) ==
    IF Len(el.cells) >= 8
    THEN ParseFloat(Remove(Cell(el, 7), {"₹", ",", "+"} \cup WhiteSpace))
    ELSE NaN

\* C27: a current price, invested value, current value or profit/loss that
\* the cell strategy read off a row of at least 7 cells is the value of that
\* field in the record of the row, whether or not the text strategy ran after
\* it.
C27_ObservedFieldsKept ==
    (Processed /\ Len(element.cells) >= 7) =>
        LET sd == Extracted[element] IN
        /\ Positive(CellAmount(element, 3)) => sd.currentPrice = CellAmount(element, 3)
        /\ Positive(CellAmount(element, 4)) => sd.investedValue = CellAmount(element, 4)
        /\ Positive(CellAmount(element, 5)) => sd.totalValue = CellAmount(element, 5)
        /\ ~IsNaN(PlAmount(element)) => sd.profitLoss = PlAmount(element)

\* ---- progress events --------------------------------------------------------

\* C28: every call of the caller's progress callback passes a percentage
\* between 0 and 100 and a non-empty message, whether the request went through
\* syncGrowwAccountRealTime or through scrapeGrowwRealtime.
C28_EventsCarryBoth ==
    \A i \in DOMAIN received :
        /\ Len(received[i]) = 2
        /\ received[i][1] \in 0..100
        /\ received[i][2] # ""

\* ---- the stocks store ---------------------------------------------------------

\* the stocks of an account, in file order
StocksOf(items, accountId) == SelectSeq(items, LAMBDA stock : stock.accountId = accountId)

\* the write of a processScrapedHoldings by client c settles successfully
ProcessSaved(c) ==
    /\ request[c].kind = "processScrapedHoldings"
    /\ request[c].pc = "write_wait"
    /\ request'[c].pc = "done"

\* C29: when processScrapedHoldings(accountId, holdings) has saved, the stocks
\* of accountId in the store are exactly the holdings that pass the Stock
\* validation, in order, and the stocks of every other account are what they
\* were before the save.
C29_AccountReplaced ==
    [][\A c \in Clients :
          ProcessSaved(c) =>
             /\ StocksOf(stocksFile', AccountOf(c))
                   = PushValid(<<>>, AccountOf(c), request[c].holdings)
             /\ \A i \in DOMAIN stocksFile' :
                   stocksFile'[i].accountId = AccountOf(c) => Validate(stocksFile'[i])
             /\ \A o \in Clients \ {c} :
                   StocksOf(stocksFile', AccountOf(o)) = StocksOf(stocksFile, AccountOf(o))]_vars

\* C30: when every request has been served without error, the stocks of each
\* account are what that account's request alone makes of them: no request
\* undoes or loses the change of another.
C30_BothReflected ==
    (\A c \in Clients : request[c].pc = "done") =>
        \A c \in Clients :
            StocksOf(stocksFile, AccountOf(c)) = StocksOf(Changed(request[c], SeedStocks), AccountOf(c))

====
